---- MODULE Spec2Model ----
(***************************************************************************)
(* A model of abrvalg: the indentation-sensitive lexer (lexer.py), the     *)
(* precedence-climbing parser (parser.py) and the tree-walking interpreter *)
(* (interpreter.py).                                                       *)
(*                                                                         *)
(* A character is a one-character string and a text is a sequence of       *)
(* characters.  Python's None is the record None.  Every Python function   *)
(* is an operator that computes what the function computes; an exception   *)
(* is a tagged result that every caller passes on.                         *)
(***************************************************************************)
EXTENDS Integers, Sequences, FiniteSets, TLC

VARIABLES
    pc,         \* the stage the pipeline has reached
    shape,      \* the construction the source text was written from
    source,     \* the source text handed to the pipeline
    lexed,      \* what Lexer.tokenize returned or raised
    parsed,     \* what Parser.parse returned or raised
    session,    \* the heap of environments of the running session
    stream,     \* the TokenStream under test: its _tokens and its _pos
    outcome     \* what the last call returned or raised

vars == <<pc, shape, source, lexed, parsed, session, stream, outcome>>

(***************************************************************************)
(* Characters                                                              *)
(***************************************************************************)
NL == "\n"
SP == " "
TAB == "\t"
BSL == "\\"
DQ == "\""
SQ == "'"

Digits == {"0", "1", "2", "3", "4", "5", "6", "7", "8", "9"}

Letters ==
    {"a", "b", "c", "d", "e", "f", "g", "h", "i", "j", "k", "l", "m",
     "n", "o", "p", "q", "r", "s", "t", "u", "v", "w", "x", "y", "z",
     "A", "B", "C", "D", "E", "F", "G", "H", "I", "J", "K", "L", "M",
     "N", "O", "P", "Q", "R", "S", "T", "U", "V", "W", "X", "Y", "Z", "_"}

WordChars == Letters \cup Digits

Blank == {SP, TAB}

DigitVal(c) ==
    CASE c = "0" -> 0 [] c = "1" -> 1 [] c = "2" -> 2 [] c = "3" -> 3
      [] c = "4" -> 4 [] c = "5" -> 5 [] c = "6" -> 6 [] c = "7" -> 7
      [] c = "8" -> 8 [] c = "9" -> 9

(***************************************************************************)
(* Sequence helpers                                                        *)
(***************************************************************************)
Slice(s, i, j) == IF j < i THEN <<>> ELSE SubSeq(s, i, j)

DropN(s, n) == Slice(s, n + 1, Len(s))

StartsWithAt(s, i, p) ==
    /\ i + Len(p) - 1 <= Len(s)
    /\ \A k \in 1..Len(p) : s[i + k - 1] = p[k]

RECURSIVE Repeat(_, _)
Repeat(x, n) == IF n <= 0 THEN <<>> ELSE <<x>> \o Repeat(x, n - 1)

Min(S) == CHOOSE x \in S : \A y \in S : x <= y

Max(S) == CHOOSE x \in S : \A y \in S : x >= y

\* the first index >= i whose character is not in S (Len + 1 when none)
SpanEnd(s, i, S) ==
    LET others == {j \in i..Len(s) : s[j] \notin S}
    IN IF others = {} THEN Len(s) + 1 ELSE Min(others)

(***************************************************************************)
(* lexer.py                                                                *)
(***************************************************************************)
None == [k |-> "none"]

Token(name, value, line, column) ==
    [name |-> name, value |-> value, line |-> line, column |-> column]

StrVal(text) == [k |-> "str", s |-> text]
IntVal(n) == [k |-> "int", n |-> n]
FloatVal(text) == [k |-> "float", s |-> text]

\* lexer.py:73-86
KeywordTexts ==
    { <<"f","u","n","c">>, <<"r","e","t","u","r","n">>, <<"e","l","s","e">>,
      <<"e","l","i","f">>, <<"i","f">>, <<"w","h","i","l","e">>,
      <<"b","r","e","a","k">>, <<"c","o","n","t","i","n","u","e">>,
      <<"f","o","r">>, <<"i","n">>, <<"m","a","t","c","h">>,
      <<"w","h","e","n">> }

keywords(text) ==
    CASE text = <<"f","u","n","c">> -> "FUNCTION"
      [] text = <<"r","e","t","u","r","n">> -> "RETURN"
      [] text = <<"e","l","s","e">> -> "ELSE"
      [] text = <<"e","l","i","f">> -> "ELIF"
      [] text = <<"i","f">> -> "IF"
      [] text = <<"w","h","i","l","e">> -> "WHILE"
      [] text = <<"b","r","e","a","k">> -> "BREAK"
      [] text = <<"c","o","n","t","i","n","u","e">> -> "CONTINUE"
      [] text = <<"f","o","r">> -> "FOR"
      [] text = <<"i","n">> -> "IN"
      [] text = <<"m","a","t","c","h">> -> "MATCH"
      [] text = <<"w","h","e","n">> -> "WHEN"

\* variant: comments stay in the token stream
ignore_tokens_comment_kept == {"WHITESPACE"}

ignore_tokens == {"WHITESPACE", "COMMENT"}

\* the escapes decode_str resolves, lexer.py:20-28
EscapeChars == {"r", "n", "t", BSL, DQ, SQ}

EscapeOf(c) ==
    CASE c = "r" -> "\r" [] c = "n" -> "\n" [] c = "t" -> "\t"
      [] c = BSL -> BSL [] c = DQ -> DQ [] c = SQ -> SQ

RECURSIVE DecodeFrom(_, _)
DecodeFrom(body, i) ==
    IF i > Len(body) THEN <<>>
    ELSE IF body[i] = BSL /\ i + 1 <= Len(body) /\ body[i + 1] \in EscapeChars
         THEN <<EscapeOf(body[i + 1])>> \o DecodeFrom(body, i + 2)
         ELSE <<body[i]>> \o DecodeFrom(body, i + 1)

\* s[1:-1] with every \r \n \t \\ \" \' replaced, left to right
decode_str(s) == StrVal(DecodeFrom(Slice(s, 2, Len(s) - 1), 1))

RECURSIVE DigitsValue(_, _)
DigitsValue(s, acc) ==
    IF s = <<>> THEN acc ELSE DigitsValue(Tail(s), 10 * acc + DigitVal(Head(s)))

decode_num(s) ==
    IF \A i \in 1..Len(s) : s[i] \in Digits
    THEN IntVal(DigitsValue(s, 0))
    ELSE FloatVal(s)

(***************************************************************************)
(* The compiled rule set: MatchAt(line, i) is what self._regex.match(line, *)
(* i - 1) yields, as [name, end] with end the index after the match, or    *)
(* name = "" when no rule matches.  Groups are tried in the order of       *)
(* lexer.py:48-71, patterns of one name joined in declaration order.       *)
(***************************************************************************)
NoMatch == [name |-> "", end |-> 0]

RECURSIVE StringScan(_, _, _, _)
\* "((\\"|[^"])*)" from the opening quote at i - 1: the greedy scan takes
\* every backslash-quote pair as one item; with no closing quote left, the
\* engine backtracks to the last such pair and closes the string on it.
StringScan(line, j, q, lastEsc) ==
    IF j > Len(line)
    THEN IF lastEsc = 0 THEN 0 ELSE lastEsc + 2
    ELSE IF line[j] = BSL /\ j + 1 <= Len(line) /\ line[j + 1] = q
         THEN StringScan(line, j + 2, q, j)
         ELSE IF line[j] # q
              THEN StringScan(line, j + 1, q, lastEsc)
              ELSE j + 1

MatchString(line, i) ==
    IF line[i] \in {DQ, SQ} THEN StringScan(line, i + 1, line[i], 0) ELSE 0

MatchNumber(line, i) ==
    IF line[i] \notin Digits THEN 0
    ELSE LET e1 == SpanEnd(line, i, Digits)
         IN IF e1 + 1 <= Len(line) /\ line[e1] = "." /\ line[e1 + 1] \in Digits
            THEN SpanEnd(line, e1 + 1, Digits)
            ELSE e1

\* variant: a keyword at i is matched before any longer name is
MatchName_keyword_first(line, i) ==
    IF \E k \in KeywordTexts : StartsWithAt(line, i, k)
    THEN i + Max({Len(k) : k \in {t \in KeywordTexts : StartsWithAt(line, i, t)}})
    ELSE IF line[i] \in Letters THEN SpanEnd(line, i + 1, WordChars) ELSE 0

MatchName(line, i) ==
    IF line[i] \in Letters THEN SpanEnd(line, i + 1, WordChars) ELSE 0

\* lexer.py:57-61, in declaration order
OperatorPatterns ==
    << <<"+">>, <<"*">>, <<"-">>, <<"/">>, <<"%">>,
       <<"<", "=">>, <<">", "=">>, <<"=", "=">>, <<"!", "=">>, <<"<">>, <<">">>,
       <<"|", "|">>, <<"&", "&">>,
       <<".", ".", ".">>, <<".", ".">>,
       <<"!">> >>

MatchOperator(line, i) ==
    LET hits == {k \in 1..Len(OperatorPatterns) :
                    StartsWithAt(line, i, OperatorPatterns[k])}
    IN IF hits = {} THEN 0 ELSE i + Len(OperatorPatterns[Min(hits)])

Punctuation(c) ==
    CASE c = "=" -> "ASSIGN" [] c = "(" -> "LPAREN" [] c = ")" -> "RPAREN"
      [] c = "[" -> "LBRACK" [] c = "]" -> "RBRACK" [] c = "{" -> "LCBRACK"
      [] c = "}" -> "RCBRACK" [] c = ":" -> "COLON" [] c = "," -> "COMMA"
      [] OTHER -> ""

MatchAt(line, i) ==
    IF line[i] = "#" THEN [name |-> "COMMENT", end |-> Len(line) + 1]
    ELSE IF MatchString(line, i) # 0
    THEN [name |-> "STRING", end |-> MatchString(line, i)]
    ELSE IF MatchNumber(line, i) # 0
    THEN [name |-> "NUMBER", end |-> MatchNumber(line, i)]
    ELSE IF MatchName(line, i) # 0
    THEN [name |-> "NAME", end |-> MatchName(line, i)]
    ELSE IF line[i] \in Blank
    THEN [name |-> "WHITESPACE", end |-> SpanEnd(line, i, Blank)]
    ELSE IF line[i] = NL
    THEN [name |-> "NEWLINE", end |-> SpanEnd(line, i, {NL})]
    ELSE IF MatchOperator(line, i) # 0
    THEN [name |-> "OPERATOR", end |-> MatchOperator(line, i)]
    ELSE IF Punctuation(line[i]) # ""
    THEN [name |-> Punctuation(line[i]), end |-> i + 1]
    ELSE NoMatch

\* the token yielded for a match of rule name on line[i .. end - 1]
TokenColumn(i) == i

MakeToken(name, text, line_num, i) ==
    IF name = "STRING" THEN Token(name, decode_str(text), line_num, TokenColumn(i))
    ELSE IF name = "NUMBER" THEN Token(name, decode_num(text), line_num, TokenColumn(i))
    ELSE IF name = "NAME" /\ text \in KeywordTexts
    THEN Token(keywords(text), None, line_num, TokenColumn(i))
    ELSE Token(name, StrVal(text), line_num, TokenColumn(i))

LexerError(message, line, column) ==
    [ok |-> FALSE, exc |-> "AbrvalgSyntaxError", message |-> message,
     line |-> line, column |-> column]

RECURSIVE TokenizeFrom(_, _, _, _)
TokenizeFrom(line, line_num, i, acc) ==
    IF i > Len(line) THEN [ok |-> TRUE, tokens |-> acc]
    ELSE LET m == MatchAt(line, i)
         IN IF m.name = ""
            THEN LexerError(<<"Unexpected character", line[i]>>, line_num, i)
            ELSE IF m.name \in ignore_tokens
                 THEN TokenizeFrom(line, line_num, m.end, acc)
                 ELSE TokenizeFrom(line, line_num, m.end,
                        Append(acc, MakeToken(m.name, Slice(line, i, m.end - 1),
                                              line_num, i)))

_tokenize_line(line, line_num) == TokenizeFrom(line, line_num, 1, <<>>)

_count_leading_characters(line, char) == SpanEnd(line, 1, {char}) - 1

\* None is the empty text: a detected indent unit has at least one character
_detect_indent(line) ==
    IF line[1] \in Blank
    THEN Repeat(line[1], _count_leading_characters(line, line[1]))
    ELSE <<>>

RECURSIVE CountFrom(_, _, _)
\* str.count: the non-overlapping occurrences of sub in the whole of s
CountFrom(s, sub, i) ==
    IF i + Len(sub) - 1 > Len(s) THEN 0
    ELSE IF StartsWithAt(s, i, sub)
         THEN 1 + CountFrom(s, sub, i + Len(sub))
         ELSE CountFrom(s, sub, i + 1)

LineIndentLevel(line, indent_symbol) == CountFrom(line, indent_symbol, 1)

RECURSIVE RStrip(_)
RStrip(line) ==
    IF line # <<>> /\ line[Len(line)] \in Blank
    THEN RStrip(Slice(line, 1, Len(line) - 1))
    ELSE line

RECURSIVE SplitFrom(_, _)
\* str.splitlines: a line ends at each line break; a final break opens no line
SplitFrom(s, i) ==
    IF i > Len(s) THEN <<>>
    ELSE LET breaks == {j \in i..Len(s) : s[j] = NL}
         IN IF breaks = {} THEN <<Slice(s, i, Len(s))>>
            ELSE <<Slice(s, i, Min(breaks) - 1)>> \o SplitFrom(s, Min(breaks) + 1)

splitlines(s) == SplitFrom(s, 1)

IndentColumn == 0

\* variant: one INDENT or DEDENT for a change of level, however large
IndentTokens_single(indent_level, last_indent_level, line_num) ==
    IF indent_level > last_indent_level
    THEN <<Token("INDENT", None, line_num, IndentColumn)>>
    ELSE IF indent_level < last_indent_level
    THEN <<Token("DEDENT", None, line_num, IndentColumn)>>
    ELSE <<>>

\* lexer.py:170-175: one INDENT or DEDENT per level of difference
IndentTokens(indent_level, last_indent_level, line_num) ==
    IF indent_level > last_indent_level
    THEN Repeat(Token("INDENT", None, line_num, IndentColumn),
                indent_level - last_indent_level)
    ELSE Repeat(Token("DEDENT", None, line_num, IndentColumn),
                last_indent_level - indent_level)

\* variant: one block is left open at the end of the input
TrailingDedents_one_short(last_indent_level, line_num) ==
    Repeat(Token("DEDENT", None, line_num, IndentColumn), last_indent_level - 1)

\* lexer.py:180-181: back to level 0 at the end of the input
TrailingDedents(last_indent_level, line_num) ==
    Repeat(Token("DEDENT", None, line_num, IndentColumn), last_indent_level)

RECURSIVE TokenizeLines(_, _, _)
\* the loop of Lexer.tokenize over lines[line_num ..]; st holds the locals
TokenizeLines(lines, line_num, st) ==
    IF line_num > Len(lines)
    THEN [ok |-> TRUE,
          tokens |-> st.tokens \o TrailingDedents(st.last_indent_level, Len(lines)),
          source_lines |-> st.source_lines]
    ELSE
    LET line0 == RStrip(lines[line_num])
    IN IF line0 = <<>>
       THEN TokenizeLines(lines, line_num + 1,
                [st EXCEPT !.source_lines = Append(@, <<>>)])
       ELSE
       LET indent_symbol == IF st.indent_symbol = <<>>
                            THEN _detect_indent(line0)
                            ELSE st.indent_symbol
           indent_level == IF indent_symbol # <<>>
                           THEN LineIndentLevel(line0, indent_symbol)
                           ELSE 0
           line == DropN(line0, indent_level * Len(indent_symbol))
           lt == _tokenize_line(line, line_num)
           src == Append(st.source_lines, line)
       IN IF ~lt.ok THEN [lt EXCEPT !.ok = FALSE] @@ [source_lines |-> src]
          ELSE IF lt.tokens = <<>>
          THEN TokenizeLines(lines, line_num + 1,
                   [st EXCEPT !.indent_symbol = indent_symbol,
                              !.source_lines = src])
          ELSE
          LET dents == IndentTokens(indent_level, st.last_indent_level, line_num)
          IN TokenizeLines(lines, line_num + 1,
                 [indent_symbol |-> indent_symbol,
                  last_indent_level |-> indent_level,
                  source_lines |-> src,
                  tokens |-> st.tokens \o dents \o lt.tokens \o
                             <<Token("NEWLINE", None, line_num, Len(line) + 1)>>])

tokenize(s) ==
    TokenizeLines(splitlines(s), 1,
        [indent_symbol |-> <<>>, last_indent_level |-> 0,
         source_lines |-> <<>>, tokens |-> <<>>])

(***************************************************************************)
(* lexer.py: TokenStream.  The stream is the token sequence tk and the     *)
(* cursor p (self._pos).  A result is a record: exc = "" for a normal      *)
(* return, with the new cursor in pos and the returned object in node;     *)
(* otherwise exc names the exception raised.                               *)
(***************************************************************************)
Ok(p, node) ==
    [exc |-> "", pos |-> p, node |-> node,
     message |-> <<>>, line |-> 0, column |-> 0]

Raise(exc, message, line, column) ==
    [exc |-> exc, pos |-> 0, node |-> None,
     message |-> message, line |-> line, column |-> column]

\* errors.py:9-15, parser.py:17-20
SyntaxErrorAt(message, token) ==
    Raise("AbrvalgSyntaxError", message, token.line, token.column)

\* an exception of Python itself, which carries no position
PyError(exc) == Raise(exc, <<>>, 0, 0)

\* With([x \in {e} |-> body]) is body with x standing for the value of e: a
\* local of the Python function, assigned once and read many times
With(f) == f[CHOOSE x \in DOMAIN f : TRUE]

\* TokenStream(tokens)
TokenStream(tokens) == [_tokens |-> tokens, _pos |-> 0]

is_end(tk, p) == p = Len(tk)

current(tk, p) ==
    IF p < Len(tk) THEN Ok(p, tk[p + 1])
    ELSE IF tk = <<>> THEN PyError("IndexError")
    ELSE SyntaxErrorAt(<<"Unexpected end of input">>, tk[Len(tk)])

consume(tk, p) ==
    With([r \in {current(tk, p)} |->
       IF r.exc # "" THEN r ELSE Ok(p + 1, r.node)])

RECURSIVE consume_expected(_, _, _)
consume_expected(tk, p, names) ==
    With([r \in {consume(tk, p)} |->
       IF r.exc # "" THEN r
       ELSE IF r.node.name # Head(names)
       THEN SyntaxErrorAt(<<"Expected", Head(names), "got", r.node.name>>, r.node)
       ELSE IF Len(names) = 1 THEN r
       ELSE consume_expected(tk, r.pos, Tail(names))])

expect_end(tk, p) ==
    IF ~is_end(tk, p)
    THEN SyntaxErrorAt(<<"End expected">>, tk[p + 1])
    ELSE Ok(p, None)

(***************************************************************************)
(* parser.py: expressions                                                  *)
(***************************************************************************)
\* parser.py:36-63
PrecCall == 10
PrecSubscript == 10
PrecUnary == 9

BinaryOperators ==
    { <<"*">>, <<"/">>, <<"%">>, <<"+">>, <<"-">>,
      <<">">>, <<">", "=">>, <<"<">>, <<"<", "=">>,
      <<"=", "=">>, <<"!", "=">>, <<"&", "&">>, <<"|", "|">>,
      <<".", ".">>, <<".", ".", ".">> }

\* variant: the additive operators bind tighter than the multiplicative
PRECEDENCE_additive_first(op) ==
    CASE op \in {<<"*">>, <<"/">>, <<"%">>} -> 6
      [] op \in {<<"+">>, <<"-">>} -> 7
      [] op \in {<<">">>, <<">", "=">>, <<"<">>, <<"<", "=">>} -> 5
      [] op \in {<<"=", "=">>, <<"!", "=">>} -> 4
      [] op = <<"&", "&">> -> 3
      [] op = <<"|", "|">> -> 2
      [] op \in {<<".", ".">>, <<".", ".", ".">>} -> 1

PRECEDENCE(op) ==
    CASE op \in {<<"*">>, <<"/">>, <<"%">>} -> 7
      [] op \in {<<"+">>, <<"-">>} -> 6
      [] op \in {<<">">>, <<">", "=">>, <<"<">>, <<"<", "=">>} -> 5
      [] op \in {<<"=", "=">>, <<"!", "=">>} -> 4
      [] op = <<"&", "&">> -> 3
      [] op = <<"|", "|">> -> 2
      [] op \in {<<".", ".">>, <<".", ".", ".">>} -> 1

\* parser.py:113
SUPPORTED_OPERATORS == {<<"-">>, <<"!">>}

PrefixTokens ==
    {"NUMBER", "STRING", "NAME", "LPAREN", "LBRACK", "LCBRACK", "OPERATOR"}

InfixTokens == {"OPERATOR", "LPAREN", "LBRACK"}

\* BinaryOperatorExpression.get_precedence: self.PRECEDENCE[token.value]
BinaryPrecedence(token) ==
    IF token.value.s \in BinaryOperators
    THEN Ok(0, PRECEDENCE(token.value.s))
    ELSE PyError("KeyError")

\* Expression.get_next_precedence
get_next_precedence(tk, p) ==
    IF ~is_end(tk, p)
    THEN With([token \in {tk[p + 1]} |->
            IF token.name = "OPERATOR" THEN BinaryPrecedence(token)
            ELSE IF token.name = "LPAREN" THEN Ok(0, PrecCall)
            ELSE IF token.name = "LBRACK" THEN Ok(0, PrecSubscript)
            ELSE Ok(0, 0)])
    ELSE Ok(0, 0)

RECURSIVE Expression_parse(_, _, _)
RECURSIVE InfixLoop(_, _, _, _)
RECURSIVE PrefixParse(_, _)
RECURSIVE InfixParse(_, _, _)
RECURSIVE UnaryOperatorExpression_parse(_, _)
RECURSIVE GroupExpression_parse(_, _)
RECURSIVE ArrayExpression_parse(_, _)
RECURSIVE DictionaryExpression_parse(_, _)
RECURSIVE _parse_keyvals(_, _, _)
RECURSIVE BinaryOperatorExpression_parse(_, _, _)
RECURSIVE CallExpression_parse(_, _, _)
RECURSIVE SubscriptOperatorExpression_parse(_, _, _)
RECURSIVE ListOfExpressions_parse(_, _, _)

NumberExpression_parse(tk, p) ==
    With([r \in {consume_expected(tk, p, <<"NUMBER">>)} |->
       IF r.exc # "" THEN r
       ELSE Ok(r.pos, [type |-> "Number", value |-> r.node.value])])

StringExpression_parse(tk, p) ==
    With([r \in {consume_expected(tk, p, <<"STRING">>)} |->
       IF r.exc # "" THEN r
       ELSE Ok(r.pos, [type |-> "String", value |-> r.node.value])])

NameExpression_parse(tk, p) ==
    With([r \in {consume_expected(tk, p, <<"NAME">>)} |->
       IF r.exc # "" THEN r
       ELSE Ok(r.pos, [type |-> "Identifier", value |-> r.node.value.s])])

\* raise ParserError('Expected expression', tokens.consume())
ExpectedExpression(tk, p) ==
    With([c \in {consume(tk, p)} |->
       IF c.exc # "" THEN c
       ELSE SyntaxErrorAt(<<"Expected expression">>, c.node)])

UnaryOperatorExpression_parse(tk, p) ==
    With([t \in {consume_expected(tk, p, <<"OPERATOR">>)} |->
       IF t.exc # "" THEN t
       ELSE IF t.node.value.s \notin SUPPORTED_OPERATORS
       THEN SyntaxErrorAt(<<"Unary operator is not supported">>, t.node)
       ELSE With([right \in {Expression_parse(tk, t.pos, PrecUnary)} |->
               IF right.exc # "" THEN right
               ELSE IF right.node = None THEN ExpectedExpression(tk, right.pos)
               ELSE Ok(right.pos, [type |-> "UnaryOperator",
                                   operator |-> t.node.value.s,
                                   right |-> right.node])])])

GroupExpression_parse(tk, p) ==
    With([l \in {consume_expected(tk, p, <<"LPAREN">>)} |->
       IF l.exc # "" THEN l
       ELSE With([right \in {Expression_parse(tk, l.pos, 0)} |->
               IF right.exc # "" THEN right
               ELSE With([r \in {consume_expected(tk, right.pos, <<"RPAREN">>)} |->
                       IF r.exc # "" THEN r ELSE Ok(r.pos, right.node)])])])

ArrayExpression_parse(tk, p) ==
    With([l \in {consume_expected(tk, p, <<"LBRACK">>)} |->
       IF l.exc # "" THEN l
       ELSE With([items \in {ListOfExpressions_parse(tk, l.pos, <<>>)} |->
               IF items.exc # "" THEN items
               ELSE With([r \in {consume_expected(tk, items.pos, <<"RBRACK">>)} |->
                       IF r.exc # "" THEN r
                       ELSE Ok(r.pos, [type |-> "Array", items |-> items.node])])])])

\* DictionaryExpression._parse_keyvals: the loop, items so far in acc
_parse_keyvals(tk, p, acc) ==
    IF is_end(tk, p) THEN Ok(p, acc)
    ELSE With([key \in {Expression_parse(tk, p, 0)} |->
            IF key.exc # "" THEN key
            ELSE IF key.node = None THEN Ok(key.pos, acc)
            ELSE
            With([c \in {consume_expected(tk, key.pos, <<"COLON">>)} |->
               IF c.exc # "" THEN c
               ELSE
               With([value \in {Expression_parse(tk, c.pos, 0)} |->
                  IF value.exc # "" THEN value
                  ELSE IF value.node = None
                  THEN With([t \in {consume(tk, value.pos)} |->
                          IF t.exc # "" THEN t
                          ELSE SyntaxErrorAt(<<"Dictionary value expected">>, t.node)])
                  ELSE
                  With([acc1 \in {Append(acc, <<key.node, value.node>>)} |->
                      With([cur \in {current(tk, value.pos)} |->
                     IF cur.exc # "" THEN cur
                     ELSE IF cur.node.name = "COMMA"
                     THEN _parse_keyvals(tk, value.pos + 1, acc1)
                     ELSE Ok(value.pos, acc1)])])])])])

DictionaryExpression_parse(tk, p) ==
    With([l \in {consume_expected(tk, p, <<"LCBRACK">>)} |->
       IF l.exc # "" THEN l
       ELSE With([items \in {_parse_keyvals(tk, l.pos, <<>>)} |->
               IF items.exc # "" THEN items
               ELSE With([r \in {consume_expected(tk, items.pos, <<"RCBRACK">>)} |->
                       IF r.exc # "" THEN r
                       ELSE Ok(r.pos, [type |-> "Dictionary", items |-> items.node])])])])

BinaryOperatorExpression_parse(tk, p, left) ==
    With([t \in {consume_expected(tk, p, <<"OPERATOR">>)} |->
       IF t.exc # "" THEN t
       ELSE With([prec \in {BinaryPrecedence(t.node)} |->
               IF prec.exc # "" THEN prec
               ELSE With([right \in {Expression_parse(tk, t.pos, prec.node)} |->
                       IF right.exc # "" THEN right
                       ELSE IF right.node = None
                       THEN ExpectedExpression(tk, right.pos)
                       ELSE Ok(right.pos, [type |-> "BinaryOperator",
                                           operator |-> t.node.value.s,
                                           left |-> left,
                                           right |-> right.node])])])])

CallExpression_parse(tk, p, left) ==
    With([l \in {consume_expected(tk, p, <<"LPAREN">>)} |->
       IF l.exc # "" THEN l
       ELSE With([arguments \in {ListOfExpressions_parse(tk, l.pos, <<>>)} |->
               IF arguments.exc # "" THEN arguments
               ELSE With([r \in {consume_expected(tk, arguments.pos, <<"RPAREN">>)} |->
                       IF r.exc # "" THEN r
                       ELSE Ok(r.pos, [type |-> "Call", left |-> left,
                                       arguments |-> arguments.node])])])])

SubscriptOperatorExpression_parse(tk, p, left) ==
    With([l \in {consume_expected(tk, p, <<"LBRACK">>)} |->
       IF l.exc # "" THEN l
       ELSE With([key \in {Expression_parse(tk, l.pos, 0)} |->
               IF key.exc # "" THEN key
               ELSE IF key.node = None
               THEN With([c \in {current(tk, key.pos)} |->
                       IF c.exc # "" THEN c
                       ELSE SyntaxErrorAt(<<"Subscript operator key is required">>, c.node)])
               ELSE With([r \in {consume_expected(tk, key.pos, <<"RBRACK">>)} |->
                       IF r.exc # "" THEN r
                       ELSE Ok(r.pos, [type |-> "SubscriptOperator",
                                       left |-> left, key |-> key.node])])])])

\* Expression.get_prefix_subparser(token).parse(parser, tokens)
PrefixParse(tk, p) ==
    With([name \in {tk[p + 1].name} |->
       CASE name = "NUMBER" -> NumberExpression_parse(tk, p)
         [] name = "STRING" -> StringExpression_parse(tk, p)
         [] name = "NAME" -> NameExpression_parse(tk, p)
         [] name = "LPAREN" -> GroupExpression_parse(tk, p)
         [] name = "LBRACK" -> ArrayExpression_parse(tk, p)
         [] name = "LCBRACK" -> DictionaryExpression_parse(tk, p)
         [] name = "OPERATOR" -> UnaryOperatorExpression_parse(tk, p)])

\* Expression.get_infix_subparser(tokens.current()).parse(parser, tokens, left)
InfixParse(tk, p, left) ==
    With([name \in {tk[p + 1].name} |->
       CASE name = "OPERATOR" -> BinaryOperatorExpression_parse(tk, p, left)
         [] name = "LPAREN" -> CallExpression_parse(tk, p, left)
         [] name = "LBRACK" -> SubscriptOperatorExpression_parse(tk, p, left)])

\* whether the loop of Expression.parse absorbs the next infix form
Absorbs(precedence, next) == precedence < next

\* the while loop of Expression.parse
InfixLoop(tk, p, left, precedence) ==
    With([next \in {get_next_precedence(tk, p)} |->
       IF next.exc # "" THEN next
       ELSE IF Absorbs(precedence, next.node)
       THEN With([op \in {InfixParse(tk, p, left)} |->
               IF op.exc # "" THEN op
               ELSE InfixLoop(tk, op.pos,
                              IF op.node # None THEN op.node ELSE left,
                              precedence)])
       ELSE Ok(p, left)])

Expression_parse(tk, p, precedence) ==
    With([cur \in {current(tk, p)} |->
       IF cur.exc # "" THEN cur
       ELSE IF cur.node.name \notin PrefixTokens THEN Ok(p, None)
       ELSE With([left \in {PrefixParse(tk, p)} |->
               IF left.exc # "" THEN left
               ELSE IF left.node = None THEN Ok(left.pos, None)
               ELSE InfixLoop(tk, left.pos, left.node, precedence)])])

\* ListOfExpressions.parse: the loop, items so far in acc
ListOfExpressions_parse(tk, p, acc) ==
    IF is_end(tk, p) THEN Ok(p, acc)
    ELSE With([exp \in {Expression_parse(tk, p, 0)} |->
            IF exp.exc # "" THEN exp
            ELSE IF exp.node = None THEN Ok(exp.pos, acc)
            ELSE With([acc1 \in {Append(acc, exp.node)} |->
                     With([cur \in {current(tk, exp.pos)} |->
                    IF cur.exc # "" THEN cur
                    ELSE IF cur.node.name = "COMMA"
                    THEN ListOfExpressions_parse(tk, exp.pos + 1, acc1)
                    ELSE Ok(exp.pos, acc1)])])])

(***************************************************************************)
(* parser.py: statements.  scope is parser.scope, the stack of the tags    *)
(* of the function and loop bodies being parsed (enter_scope pushes on     *)
(* entry to a block and pops on exit, so it is handed down as a parameter).*)
(***************************************************************************)
\* enter_scope(parser, name).__enter__
enter_scope(scope, name) == Append(scope, name)

\* the guards of ReturnStatement, BreakStatement and ContinueStatement
ReturnAllowed(scope) == ~(scope = <<>> \/ \A i \in 1..Len(scope) : scope[i] # "function")

\* variant: a break is let through under any loop, whatever lies between
BreakAllowed_within_any_loop(scope) ==
    \E i \in 1..Len(scope) : scope[i] = "loop"

BreakAllowed(scope) == ~(scope = <<>> \/ scope[Len(scope)] # "loop")

ContinueAllowed(scope) == ~(scope = <<>> \/ scope[Len(scope)] # "loop")

\* a parsed block, where Python holds either a list or None
Body(statements) == [type |-> "Body", body |-> statements]

RECURSIVE Statements_parse(_, _, _, _)
RECURSIVE StatementParse(_, _, _)
RECURSIVE Block_parse(_, _, _)
RECURSIVE FunctionStatement_parse(_, _, _)
RECURSIVE ConditionalStatement_parse(_, _, _)
RECURSIVE _parse_elif_conditions(_, _, _, _)
RECURSIVE _parse_else(_, _, _)
RECURSIVE MatchStatement_parse(_, _, _)
RECURSIVE _parse_whens(_, _, _, _)
RECURSIVE WhileLoopStatement_parse(_, _, _)
RECURSIVE ForLoopStatement_parse(_, _, _)

Block_parse(tk, p, scope) ==
    With([h \in {consume_expected(tk, p, <<"NEWLINE", "INDENT">>)} |->
       IF h.exc # "" THEN h
       ELSE With([statements \in {Statements_parse(tk, h.pos, scope, <<>>)} |->
               IF statements.exc # "" THEN statements
               ELSE With([d \in {consume_expected(tk, statements.pos, <<"DEDENT">>)} |->
                       IF d.exc # "" THEN d ELSE Ok(d.pos, statements.node)])])])

RECURSIVE ParamsLoop(_, _, _)
\* the while loop of FunctionStatement._parse_params
ParamsLoop(tk, p, acc) ==
    IF is_end(tk, p) THEN Ok(p, acc)
    ELSE With([id \in {consume_expected(tk, p, <<"NAME">>)} |->
            IF id.exc # "" THEN id
            ELSE With([acc1 \in {Append(acc, id.node.value.s)} |->
                     With([cur \in {current(tk, id.pos)} |->
                    IF cur.exc # "" THEN cur
                    ELSE IF cur.node.name = "COMMA"
                    THEN ParamsLoop(tk, id.pos + 1, acc1)
                    ELSE Ok(id.pos, acc1)])])])

_parse_params(tk, p) ==
    With([cur \in {current(tk, p)} |->
       IF cur.exc # "" THEN cur
       ELSE IF cur.node.name = "NAME" THEN ParamsLoop(tk, p, <<>>)
       ELSE Ok(p, <<>>)])

FunctionStatement_parse(tk, p, scope) ==
    With([h \in {consume_expected(tk, p, <<"FUNCTION", "NAME">>)} |->
       IF h.exc # "" THEN h
       ELSE
       With([l \in {consume_expected(tk, h.pos, <<"LPAREN">>)} |->
          IF l.exc # "" THEN l
          ELSE
          With([arguments \in {_parse_params(tk, l.pos)} |->
             IF arguments.exc # "" THEN arguments
             ELSE
             With([c \in {consume_expected(tk, arguments.pos, <<"RPAREN", "COLON">>)} |->
                IF c.exc # "" THEN c
                ELSE
                With([block \in {Block_parse(tk, c.pos, enter_scope(scope, "function"))} |->
                   IF block.exc # "" THEN block
                   ELSE Ok(block.pos, [type |-> "Function",
                                       name |-> h.node.value.s,
                                       params |-> arguments.node,
                                       body |-> block.node])])])])])])

\* raise ParserError(message, tokens.current())
ErrorAtCurrent(tk, p, message) ==
    With([c \in {current(tk, p)} |->
       IF c.exc # "" THEN c ELSE SyntaxErrorAt(message, c.node)])

_parse_elif_conditions(tk, p, scope, acc) ==
    IF ~is_end(tk, p) /\ tk[p + 1].name = "ELIF"
    THEN With([test \in {Expression_parse(tk, p + 1, 0)} |->
            IF test.exc # "" THEN test
            ELSE IF test.node = None
            THEN ErrorAtCurrent(tk, test.pos, <<"Expected elif condition">>)
            ELSE
            With([c \in {consume_expected(tk, test.pos, <<"COLON">>)} |->
               IF c.exc # "" THEN c
               ELSE
               With([block \in {Block_parse(tk, c.pos, scope)} |->
                  IF block.exc # "" THEN block
                  ELSE _parse_elif_conditions(tk, block.pos, scope,
                           Append(acc, [type |-> "ConditionElif",
                                        test |-> test.node,
                                        body |-> block.node]))])])])
    ELSE Ok(p, acc)

_parse_else(tk, p, scope) ==
    IF ~is_end(tk, p) /\ tk[p + 1].name = "ELSE"
    THEN With([h \in {consume_expected(tk, p, <<"ELSE", "COLON">>)} |->
            IF h.exc # "" THEN h
            ELSE With([else_block \in {Block_parse(tk, h.pos, scope)} |->
                    IF else_block.exc # "" THEN else_block
                    ELSE Ok(else_block.pos, Body(else_block.node))])])
    ELSE Ok(p, None)

ConditionalStatement_parse(tk, p, scope) ==
    With([test \in {Expression_parse(tk, p + 1, 0)} |->
       IF test.exc # "" THEN test
       ELSE IF test.node = None
       THEN ErrorAtCurrent(tk, test.pos, <<"Expected if condition">>)
       ELSE
       With([c \in {consume_expected(tk, test.pos, <<"COLON">>)} |->
          IF c.exc # "" THEN c
          ELSE
          With([if_block \in {Block_parse(tk, c.pos, scope)} |->
             IF if_block.exc # "" THEN if_block
             ELSE
             With([elifs \in {_parse_elif_conditions(tk, if_block.pos, scope, <<>>)} |->
                IF elifs.exc # "" THEN elifs
                ELSE
                With([else_block \in {_parse_else(tk, elifs.pos, scope)} |->
                   IF else_block.exc # "" THEN else_block
                   ELSE Ok(else_block.pos, [type |-> "Condition",
                                            test |-> test.node,
                                            if_body |-> if_block.node,
                                            elifs |-> elifs.node,
                                            else_body |-> else_block.node])])])])])])

\* the while loop of MatchStatement.parse with MatchStatement._parse_when
_parse_whens(tk, p, scope, acc) ==
    IF ~is_end(tk, p) /\ tk[p + 1].name = "WHEN"
    THEN With([pattern \in {Expression_parse(tk, p + 1, 0)} |->
            IF pattern.exc # "" THEN pattern
            ELSE IF pattern.node = None
            THEN ErrorAtCurrent(tk, pattern.pos, <<"Pattern expression expected">>)
            ELSE
            With([c \in {consume_expected(tk, pattern.pos, <<"COLON">>)} |->
               IF c.exc # "" THEN c
               ELSE
               With([block \in {Block_parse(tk, c.pos, scope)} |->
                  IF block.exc # "" THEN block
                  ELSE _parse_whens(tk, block.pos, scope,
                           Append(acc, [type |-> "MatchPattern",
                                        pattern |-> pattern.node,
                                        body |-> block.node]))])])])
    ELSE Ok(p, acc)

MatchStatement_parse(tk, p, scope) ==
    With([test \in {Expression_parse(tk, p + 1, 0)} |->
       IF test.exc # "" THEN test
       ELSE
       With([h \in {consume_expected(tk, test.pos, <<"COLON", "NEWLINE", "INDENT">>)} |->
          IF h.exc # "" THEN h
          ELSE
          With([patterns \in {_parse_whens(tk, h.pos, scope, <<>>)} |->
             IF patterns.exc # "" THEN patterns
             ELSE IF patterns.node = <<>>
             THEN ErrorAtCurrent(tk, patterns.pos,
                                 <<"One or more when pattern excepted">>)
             ELSE
             With([else_block \in {_parse_else(tk, patterns.pos, scope)} |->
                IF else_block.exc # "" THEN else_block
                ELSE
                With([d \in {consume_expected(tk, else_block.pos, <<"DEDENT">>)} |->
                   IF d.exc # "" THEN d
                   ELSE Ok(d.pos, [type |-> "Match",
                                   test |-> test.node,
                                   patterns |-> patterns.node,
                                   else_body |-> else_block.node])])])])])])

WhileLoopStatement_parse(tk, p, scope) ==
    With([test \in {Expression_parse(tk, p + 1, 0)} |->
       IF test.exc # "" THEN test
       ELSE IF test.node = None
       THEN ErrorAtCurrent(tk, test.pos, <<"While condition expected">>)
       ELSE
       With([c \in {consume_expected(tk, test.pos, <<"COLON">>)} |->
          IF c.exc # "" THEN c
          ELSE
          With([block \in {Block_parse(tk, c.pos, enter_scope(scope, "loop"))} |->
             IF block.exc # "" THEN block
             ELSE Ok(block.pos, [type |-> "WhileLoop",
                                 test |-> test.node,
                                 body |-> block.node])])])])

ForLoopStatement_parse(tk, p, scope) ==
    With([h \in {consume_expected(tk, p, <<"FOR", "NAME">>)} |->
       IF h.exc # "" THEN h
       ELSE
       With([i \in {consume_expected(tk, h.pos, <<"IN">>)} |->
          IF i.exc # "" THEN i
          ELSE
          With([collection \in {Expression_parse(tk, i.pos, 0)} |->
             IF collection.exc # "" THEN collection
             ELSE
             With([c \in {consume_expected(tk, collection.pos, <<"COLON">>)} |->
                IF c.exc # "" THEN c
                ELSE
                With([block \in {Block_parse(tk, c.pos, enter_scope(scope, "loop"))} |->
                   IF block.exc # "" THEN block
                   ELSE Ok(block.pos, [type |-> "ForLoop",
                                       var_name |-> h.node.value.s,
                                       collection |-> collection.node,
                                       body |-> block.node])])])])])])

ReturnStatement_parse(tk, p, scope) ==
    IF ~ReturnAllowed(scope)
    THEN ErrorAtCurrent(tk, p, <<"Return outside of function">>)
    ELSE With([value \in {Expression_parse(tk, p + 1, 0)} |->
            IF value.exc # "" THEN value
            ELSE With([n \in {consume_expected(tk, value.pos, <<"NEWLINE">>)} |->
                    IF n.exc # "" THEN n
                    ELSE Ok(n.pos, [type |-> "Return", value |-> value.node])])])

BreakStatement_parse(tk, p, scope) ==
    IF ~BreakAllowed(scope)
    THEN ErrorAtCurrent(tk, p, <<"Break outside of loop">>)
    ELSE With([n \in {consume_expected(tk, p, <<"BREAK", "NEWLINE">>)} |->
            IF n.exc # "" THEN n ELSE Ok(n.pos, [type |-> "Break"])])

ContinueStatement_parse(tk, p, scope) ==
    IF ~ContinueAllowed(scope)
    THEN ErrorAtCurrent(tk, p, <<"Continue outside of loop">>)
    ELSE With([n \in {consume_expected(tk, p, <<"CONTINUE", "NEWLINE">>)} |->
            IF n.exc # "" THEN n ELSE Ok(n.pos, [type |-> "Continue"])])

AssignmentStatement_parse(tk, p, left) ==
    With([a \in {consume_expected(tk, p, <<"ASSIGN">>)} |->
       IF a.exc # "" THEN a
       ELSE With([right \in {Expression_parse(tk, a.pos, 0)} |->
               IF right.exc # "" THEN right
               ELSE With([n \in {consume_expected(tk, right.pos, <<"NEWLINE">>)} |->
                       IF n.exc # "" THEN n
                       ELSE Ok(n.pos, [type |-> "Assignment",
                                       left |-> left, right |-> right.node])])])])

ExpressionStatement_parse(tk, p) ==
    With([exp \in {Expression_parse(tk, p, 0)} |->
       IF exp.exc # "" THEN exp
       ELSE IF exp.node = None THEN Ok(exp.pos, None)
       ELSE With([cur \in {current(tk, exp.pos)} |->
               IF cur.exc # "" THEN cur
               ELSE IF cur.node.name = "ASSIGN"
               THEN AssignmentStatement_parse(tk, exp.pos, exp.node)
               ELSE With([n \in {consume_expected(tk, exp.pos, <<"NEWLINE">>)} |->
                       IF n.exc # "" THEN n ELSE Ok(n.pos, exp.node)])])])

\* Statements.get_statement_subparser(tokens.current()).parse(parser, tokens)
StatementParse(tk, p, scope) ==
    With([name \in {tk[p + 1].name} |->
       CASE name = "FUNCTION" -> FunctionStatement_parse(tk, p, scope)
         [] name = "IF" -> ConditionalStatement_parse(tk, p, scope)
         [] name = "MATCH" -> MatchStatement_parse(tk, p, scope)
         [] name = "WHILE" -> WhileLoopStatement_parse(tk, p, scope)
         [] name = "FOR" -> ForLoopStatement_parse(tk, p, scope)
         [] name = "RETURN" -> ReturnStatement_parse(tk, p, scope)
         [] name = "BREAK" -> BreakStatement_parse(tk, p, scope)
         [] name = "CONTINUE" -> ContinueStatement_parse(tk, p, scope)
         [] OTHER -> ExpressionStatement_parse(tk, p)])

\* Statements.parse: the loop, statements so far in acc
Statements_parse(tk, p, scope, acc) ==
    IF is_end(tk, p) THEN Ok(p, acc)
    ELSE With([statement \in {StatementParse(tk, p, scope)} |->
            IF statement.exc # "" THEN statement
            ELSE IF statement.node = None THEN Ok(statement.pos, acc)
            ELSE Statements_parse(tk, statement.pos, scope,
                                  Append(acc, statement.node))])

Program_parse(tk, p, scope) ==
    With([statements \in {Statements_parse(tk, p, scope, <<>>)} |->
       IF statements.exc # "" THEN statements
       ELSE With([e \in {expect_end(tk, statements.pos)} |->
               IF e.exc # "" THEN e
               ELSE Ok(e.pos, [type |-> "Program", body |-> statements.node])])])

\* Parser.parse(TokenStream(tokens))
Parser_parse(tokens) == Program_parse(tokens, 0, <<>>)

(***************************************************************************)
(* interpreter.py: values.  A Number or String node carries the value the  *)
(* lexer decoded (IntVal, FloatVal, StrVal).  True and False are BoolVal,  *)
(* a range or a list is a ListVal of its elements, a declared function is  *)
(* the ast.Function node (FunctionVal), a built-in a BuiltinFunction.      *)
(* Operations on operand types the model does not compute (floats,         *)
(* dictionaries, item assignment, ordering of anything but numbers) end in *)
(* the outcome "Unmodelled", which no real exception is named.             *)
(***************************************************************************)
BoolVal(b) == [k |-> "bool", b |-> b]

ListVal(kind, items) == [k |-> kind, items |-> items]

FunctionVal(node) == [k |-> "function", node |-> node]

BuiltinFunction(name, params) ==
    [k |-> "builtin", name |-> name, params |-> params]

IsNumeric(v) == v.k \in {"int", "bool"}

\* the integer Python computes with: True is 1 and False is 0
NumOf(v) == IF v.k = "int" THEN v.n ELSE IF v.b THEN 1 ELSE 0

\* bool(v)
Truthy(v) ==
    CASE v.k = "none" -> FALSE
      [] v.k = "bool" -> v.b
      [] v.k = "int" -> v.n # 0
      [] v.k = "float" -> \E i \in 1..Len(v.s) : v.s[i] \in Digits \ {"0"}
      [] v.k = "str" -> v.s # <<>>
      [] v.k \in {"list", "range"} -> v.items # <<>>
      [] OTHER -> TRUE

\* a normal return of value in the interpreter state st, or an exception
\* carrying value
EOk(value, st) == [exc |-> "", value |-> value, st |-> st]

ERaise(exc, value, st) == [exc |-> exc, value |-> value, st |-> st]

\* range(start, end) as the list of its elements
RECURSIVE RangeItems(_, _)
RangeItems(start, end) ==
    IF start >= end THEN <<>>
    ELSE <<IntVal(start)>> \o RangeItems(start + 1, end)

\* Python's % : the result takes the sign of the divisor
PyMod(a, b) == IF b > 0 THEN a % b ELSE 0 - ((0 - a) % (0 - b))

\* a == b
PyEq(a, b) ==
    IF IsNumeric(a) /\ IsNumeric(b) THEN NumOf(a) = NumOf(b)
    ELSE IF a.k # b.k THEN FALSE
    ELSE CASE a.k = "none" -> TRUE
           [] a.k = "str" -> a.s = b.s
           [] a.k = "builtin" -> a.name = b.name
           [] a.k = "function" -> a.node = b.node
           [] OTHER -> FALSE

SimpleOperators ==
    {<<"+">>, <<"-">>, <<"*">>, <<"/">>, <<"%">>, <<">">>, <<">", "=">>,
     <<"<">>, <<"<", "=">>, <<"=", "=">>, <<"!", "=">>, <<".", ".">>,
     <<".", ".", ".">>}

LazyOperators == {<<"&", "&">>, <<"|", "|">>}

\* simple_operations[op](a, b)
simple_operations(op, a, b, st) ==
    IF a.k = "float" \/ b.k = "float" THEN ERaise("Unmodelled", None, st)
    ELSE IF op \in {<<"=", "=">>, <<"!", "=">>}
    THEN IF a.k \in {"list", "range"} /\ b.k \in {"list", "range"}
         THEN ERaise("Unmodelled", None, st)
         ELSE EOk(BoolVal(PyEq(a, b) = (op = <<"=", "=">>)), st)
    ELSE IF IsNumeric(a) /\ IsNumeric(b)
    THEN CASE op = <<"+">> -> EOk(IntVal(NumOf(a) + NumOf(b)), st)
           [] op = <<"-">> -> EOk(IntVal(NumOf(a) - NumOf(b)), st)
           [] op = <<"*">> -> EOk(IntVal(NumOf(a) * NumOf(b)), st)
           [] op = <<"/">> -> IF NumOf(b) = 0
                              THEN ERaise("ZeroDivisionError", None, st)
                              ELSE ERaise("Unmodelled", None, st)
           [] op = <<"%">> -> IF NumOf(b) = 0
                              THEN ERaise("ZeroDivisionError", None, st)
                              ELSE EOk(IntVal(PyMod(NumOf(a), NumOf(b))), st)
           [] op = <<">">> -> EOk(BoolVal(NumOf(a) > NumOf(b)), st)
           [] op = <<">", "=">> -> EOk(BoolVal(NumOf(a) >= NumOf(b)), st)
           [] op = <<"<">> -> EOk(BoolVal(NumOf(a) < NumOf(b)), st)
           [] op = <<"<", "=">> -> EOk(BoolVal(NumOf(a) <= NumOf(b)), st)
           [] op = <<".", ".">> ->
                EOk(ListVal("range", RangeItems(NumOf(a), NumOf(b))), st)
           [] op = <<".", ".", ".">> ->
                EOk(ListVal("range", RangeItems(NumOf(a), NumOf(b) + 1)), st)
    ELSE IF op = <<"+">> /\ a.k = "str" /\ b.k = "str"
    THEN EOk(StrVal(a.s \o b.s), st)
    ELSE IF op = <<"+">> /\ a.k = "list" /\ b.k = "list"
    THEN EOk(ListVal("list", a.items \o b.items), st)
    ELSE IF op \in {<<"+">>, <<"-">>}
            /\ {a.k, b.k} \subseteq {"int", "bool", "str", "list", "range", "none"}
    THEN ERaise("TypeError", None, st)
    ELSE IF (a.k = "none" \/ b.k = "none")
            /\ op \in {<<"+">>, <<"-">>, <<"*">>, <<"/">>, <<"%">>,
                       <<".", ".">>, <<".", ".", ".">>}
    THEN ERaise("TypeError", None, st)
    ELSE ERaise("Unmodelled", None, st)

\* operations[op](a) of eval_unary_operator
unary_operations(op, a, st) ==
    IF op = <<"!">> THEN EOk(BoolVal(~Truthy(a)), st)
    ELSE IF IsNumeric(a) THEN EOk(IntVal(0 - NumOf(a)), st)
    ELSE IF a.k = "float" THEN ERaise("Unmodelled", None, st)
    ELSE ERaise("TypeError", None, st)

(***************************************************************************)
(* interpreter.py: Environment.  The heap envs is the sequence of the      *)
(* Environment objects created so far and an environment is its index; a   *)
(* parent of 0 is None.  _values is a function from the bound names to     *)
(* their values.                                                           *)
(***************************************************************************)
\* dict(zip(params, values)): a later pair replaces an earlier one
zip_dict_reversed(params, values) ==
    [key \in {params[i] : i \in 1..Min({Len(params), Len(values)})} |->
        values[Min({Len(params), Len(values)}) + 1
               - Max({i \in 1..Min({Len(params), Len(values)}) :
                        params[i] = key})]]

zip_dict(params, values) ==
    [key \in {params[i] : i \in 1..Min({Len(params), Len(values)})} |->
        values[Max({i \in 1..Min({Len(params), Len(values)}) :
                      params[i] = key})]]

\* Environment(parent, args)
Environment(parent, args) == [parent |-> parent, values |-> args]

\* self._values[key] = val
SetItem(values, key, val) ==
    [name \in DOMAIN values \cup {key} |->
        IF name = key THEN val ELSE values[name]]

RECURSIVE BindingEnv(_, _, _)
\* the nearest environment from env up that has key, 0 when none has
BindingEnv(envs, env, key) ==
    IF key \in DOMAIN envs[env].values THEN env
    ELSE IF envs[env].parent = 0 THEN 0
    ELSE BindingEnv(envs, envs[env].parent, key)

\* variant: a name bound further up is written where it is bound
Environment_set_where_bound(envs, env, key, val) ==
    IF BindingEnv(envs, env, key) = 0
    THEN [envs EXCEPT ![env].values = SetItem(@, key, val)]
    ELSE [envs EXCEPT ![BindingEnv(envs, env, key)].values = SetItem(@, key, val)]

\* env.set(key, val)
Environment_set(envs, env, key, val) ==
    [envs EXCEPT ![env].values = SetItem(@, key, val)]

\* self._values.get(key, None)
values_get(values, key) ==
    IF key \in DOMAIN values THEN values[key] ELSE None

RECURSIVE Environment_get(_, _, _)
\* env.get(key)
Environment_get(envs, env, key) ==
    With([val \in {values_get(envs[env].values, key)} |->
       IF val = None /\ envs[env].parent # 0
       THEN Environment_get(envs, envs[env].parent, key)
       ELSE val])

(***************************************************************************)
(* The interpreter state st that every eval_ function takes and returns:   *)
(* envs is the heap.  Two history fields record what happened and decide   *)
(* nothing: log is the sequence of events, frames the stack of the loops   *)
(* and calls now executing, each with the number it was entered under.     *)
(***************************************************************************)
Logged(st, event) == [st EXCEPT !.log = Append(@, event)]

Top(frames) == frames[Len(frames)]

\* a loop or a call begins
Entered(st, kind) ==
    [st EXCEPT !.frames = Append(@, [kind |-> kind, id |-> st.entered + 1]),
               !.entered = @ + 1]

\* the loop or call that is frame number depth of the stack ends and returns
\* value
Left(st, depth, event, value) ==
    [st EXCEPT !.frames = SubSeq(@, 1, depth - 1),
               !.log = Append(@, [ev |-> event, frame |-> st.frames[depth],
                                  frames |-> SubSeq(st.frames, 1, depth - 1),
                                  value |-> value, envs |-> st.envs])]

\* raise Break(ret) / Continue(ret) / Return(ret)
Signal(st, signal, value) ==
    ERaise(signal, value,
           Logged(st, [ev |-> "raise", signal |-> signal, value |-> value,
                       frames |-> st.frames]))

\* except Break / Continue / Return, in the loop or call that is frame
\* number depth
Caught(st, signal, depth) ==
    [st EXCEPT !.frames = SubSeq(@, 1, depth),
               !.log = Append(@, [ev |-> "catch", signal |-> signal,
                                  frame |-> st.frames[depth]])]

(***************************************************************************)
(* interpreter.py: the evaluators.  eval_x(node, env, st) is what          *)
(* eval_x(node, env) does in the state st: its result carries the value    *)
(* returned or the exception raised, and the state it leaves.              *)
(***************************************************************************)
RECURSIVE eval_node(_, _, _)
RECURSIVE eval_statements_from(_, _, _, _, _)
RECURSIVE eval_items(_, _, _, _, _)
RECURSIVE eval_elifs(_, _, _, _)
RECURSIVE eval_patterns(_, _, _, _, _)
RECURSIVE while_iterate(_, _, _, _)
RECURSIVE for_iterate(_, _, _, _, _, _)

\* eval_expression(node, env)
eval_expression(node, env, st) == eval_node(node, env, st)

\* eval_statement(node, env)
eval_statement(node, env, st) == eval_node(node, env, st)

\* eval_statements: the loop from statement number i on, ret the last value
eval_statements_from(statements, i, ret, env, st) ==
    IF i > Len(statements) THEN EOk(ret, st)
    ELSE IF statements[i].type = "Break" THEN Signal(st, "Break", ret)
    ELSE IF statements[i].type = "Continue" THEN Signal(st, "Continue", ret)
    ELSE With([r \in {eval_statement(statements[i], env, st)} |->
            IF r.exc # "" THEN r
            ELSE IF statements[i].type = "Return"
            THEN Signal(r.st, "Return", r.value)
            ELSE eval_statements_from(statements, i + 1, r.value, env, r.st)])

eval_statements(statements, env, st) ==
    eval_statements_from(statements, 1, None, env, st)

\* [eval_expression(item, env) for item in items]: the loop from item
\* number i on, the values so far in acc
eval_items(items, i, acc, env, st) ==
    IF i > Len(items) THEN EOk(acc, st)
    ELSE With([r \in {eval_expression(items[i], env, st)} |->
            IF r.exc # "" THEN r
            ELSE eval_items(items, i + 1, Append(acc, r.value), env, r.st)])

eval_binary_operator(node, env, st) ==
    IF node.operator \in SimpleOperators
    THEN With([left \in {eval_expression(node.left, env, st)} |->
            IF left.exc # "" THEN left
            ELSE With([right \in {eval_expression(node.right, env, left.st)} |->
                    IF right.exc # "" THEN right
                    ELSE simple_operations(node.operator, left.value,
                                           right.value, right.st)])])
    ELSE IF node.operator \in LazyOperators
    THEN With([left \in {eval_expression(node.left, env, st)} |->
            IF left.exc # "" THEN left
            ELSE IF Truthy(left.value) = (node.operator = <<"|", "|">>)
            THEN EOk(BoolVal(Truthy(left.value)), left.st)
            ELSE With([right \in {eval_expression(node.right, env, left.st)} |->
                    IF right.exc # "" THEN right
                    ELSE EOk(BoolVal(Truthy(right.value)), right.st)])])
    ELSE ERaise("Exception", None, st)

eval_unary_operator(node, env, st) ==
    With([right \in {eval_expression(node.right, env, st)} |->
       IF right.exc # "" THEN right
       ELSE unary_operations(node.operator, right.value, right.st)])

\* collection[key] = eval_expression(node.right, env): the collection is an
\* object other names may hold
eval_setitem(node, env, st) ==
    With([items \in {eval_items(<<node.left.left, node.left.key, node.right>>,
                                1, <<>>, env, st)} |->
       IF items.exc # "" THEN items
       ELSE ERaise("Unmodelled", None, items.st)])

eval_assignment(node, env, st) ==
    IF node.left.type = "SubscriptOperator" THEN eval_setitem(node, env, st)
    ELSE IF node.left.type \notin {"Identifier", "String", "Number"}
    THEN ERaise("AttributeError", None, st)
    ELSE IF node.left.type = "Number" THEN ERaise("Unmodelled", None, st)
    ELSE With([right \in {eval_expression(node.right, env, st)} |->
            IF right.exc # "" THEN right
            ELSE EOk(None,
                     [right.st EXCEPT !.envs =
                        Environment_set(@, env,
                            IF node.left.type = "String"
                            THEN node.left.value.s ELSE node.left.value,
                            right.value)])])

\* the for loop of eval_condition from elif number i on, and what follows it
eval_elifs(node, i, env, st) ==
    IF i > Len(node.elifs)
    THEN IF node.else_body # None
         THEN eval_statements(node.else_body.body, env, st)
         ELSE EOk(None, st)
    ELSE With([test \in {eval_expression(node.elifs[i].test, env, st)} |->
            IF test.exc # "" THEN test
            ELSE IF Truthy(test.value)
            THEN eval_statements(node.elifs[i].body, env, test.st)
            ELSE eval_elifs(node, i + 1, env, test.st)])

eval_condition(node, env, st) ==
    With([test \in {eval_expression(node.test, env, st)} |->
       IF test.exc # "" THEN test
       ELSE IF Truthy(test.value)
       THEN eval_statements(node.if_body, env, test.st)
       ELSE eval_elifs(node, 1, env, test.st)])

\* the for loop of eval_match from pattern number i on, and what follows it
eval_patterns(node, test, i, env, st) ==
    IF i > Len(node.patterns)
    THEN IF node.else_body # None
         THEN eval_statements(node.else_body.body, env, st)
         ELSE EOk(None, st)
    ELSE With([pattern \in {eval_expression(node.patterns[i].pattern, env, st)} |->
            IF pattern.exc # "" THEN pattern
            ELSE With([eq \in {simple_operations(<<"=", "=">>, pattern.value,
                                                 test, pattern.st)} |->
                    IF eq.exc # "" THEN eq
                    ELSE IF eq.value.b
                    THEN eval_statements(node.patterns[i].body, env, eq.st)
                    ELSE eval_patterns(node, test, i + 1, env, eq.st)])])

eval_match(node, env, st) ==
    With([test \in {eval_expression(node.test, env, st)} |->
       IF test.exc # "" THEN test
       ELSE eval_patterns(node, test.value, 1, env, test.st)])

\* eval_while_loop: the while loop, running as frame number depth
while_iterate(node, env, st, depth) ==
    With([test \in {eval_expression(node.test, env,
                        Logged(st, [ev |-> "test", frame |-> st.frames[depth]]))} |->
       IF test.exc # "" THEN test
       ELSE IF ~Truthy(test.value) THEN EOk(None, Left(test.st, depth, "loop_exit", None))
       ELSE With([body \in {eval_statements(node.body, env, test.st)} |->
               IF body.exc = "Break"
               THEN EOk(None, Left(Caught(body.st, "Break", depth),
                                   depth, "loop_exit", None))
               ELSE IF body.exc = "Continue"
               THEN while_iterate(node, env,
                                  Caught(body.st, "Continue", depth), depth)
               ELSE IF body.exc # "" THEN body
               ELSE while_iterate(node, env, body.st, depth)])])

eval_while_loop(node, env, st) ==
    while_iterate(node, env, Entered(st, "loop"), Len(st.frames) + 1)

\* eval_for_loop: the for loop from element number i of the collection on,
\* running as frame number depth
for_iterate(node, items, i, env, st, depth) ==
    IF i > Len(items)
    THEN EOk(None, Left(Logged(st, [ev |-> "test", frame |-> st.frames[depth]]),
                        depth, "loop_exit", None))
    ELSE With([body \in {eval_statements(node.body, env,
                    [st EXCEPT !.log = Append(@, [ev |-> "test",
                                                  frame |-> st.frames[depth]]),
                               !.envs = Environment_set(@, env, node.var_name,
                                                        items[i])])} |->
            IF body.exc = "Break"
            THEN EOk(None, Left(Caught(body.st, "Break", depth),
                                depth, "loop_exit", None))
            ELSE IF body.exc = "Continue"
            THEN for_iterate(node, items, i + 1, env,
                             Caught(body.st, "Continue", depth), depth)
            ELSE IF body.exc # "" THEN body
            ELSE for_iterate(node, items, i + 1, env, body.st, depth)])

\* for val in collection: the elements a collection yields
Elements(collection) ==
    IF collection.k = "str"
    THEN [i \in 1..Len(collection.s) |-> StrVal(<<collection.s[i]>>)]
    ELSE collection.items

eval_for_loop(node, env, st) ==
    With([collection \in {eval_expression(node.collection, env, st)} |->
       IF collection.exc # "" THEN collection
       ELSE IF collection.value.k \in {"function", "builtin"}
       THEN ERaise("Unmodelled", None, collection.st)
       ELSE IF collection.value.k \notin {"str", "list", "range"}
       THEN ERaise("TypeError", None, collection.st)
       ELSE for_iterate(node, Elements(collection.value), 1, env,
                        Entered(collection.st, "loop"),
                        Len(collection.st.frames) + 1)])

eval_function_declaration(node, env, st) ==
    EOk(None, [st EXCEPT !.envs = Environment_set(@, env, node.name,
                                                  FunctionVal(node))])

\* n_expected_args != n_actual_args
ArityMismatch_too_few(n_expected_args, n_actual_args) ==
    n_expected_args > n_actual_args

ArityMismatch(n_expected_args, n_actual_args) ==
    n_expected_args # n_actual_args

\* function.params
params_of(function) ==
    IF function.k = "builtin" THEN function.params ELSE function.node.params

\* str(n) for an integer n >= 0
RECURSIVE DigitsOf(_)
DigitsOf(n) ==
    IF n < 10 THEN <<CHOOSE c \in Digits : DigitVal(c) = n>>
    ELSE Append(DigitsOf(n \div 10), CHOOSE c \in Digits : DigitVal(c) = n % 10)

\* str(args['in'])
builtin_str(in, st) ==
    CASE in.k = "str" -> EOk(in, st)
      [] in.k = "int" -> EOk(StrVal(IF in.n < 0 THEN <<"-">> \o DigitsOf(0 - in.n)
                                    ELSE DigitsOf(in.n)), st)
      [] in.k = "bool" -> EOk(StrVal(IF in.b THEN <<"T", "r", "u", "e">>
                                     ELSE <<"F", "a", "l", "s", "e">>), st)
      [] in.k = "none" -> EOk(StrVal(<<"N", "o", "n", "e">>), st)
      [] OTHER -> ERaise("Unmodelled", None, st)

\* int(args['in'])
builtin_int(in, st) ==
    CASE IsNumeric(in) -> EOk(IntVal(NumOf(in)), st)
      [] in.k = "str" ->
           IF in.s # <<>> /\ \A i \in 1..Len(in.s) : in.s[i] \in Digits
           THEN EOk(IntVal(DigitsValue(in.s, 0)), st)
           ELSE IF in.s = <<>> \/ \E i \in 1..Len(in.s) : in.s[i] \in Letters \ {"_"}
           THEN ERaise("ValueError", None, st)
           ELSE ERaise("Unmodelled", None, st)
      [] in.k = "float" -> ERaise("Unmodelled", None, st)
      [] OTHER -> ERaise("TypeError", None, st)

\* len(args['iter'])
builtin_len(iter, st) ==
    CASE iter.k = "str" -> EOk(IntVal(Len(iter.s)), st)
      [] iter.k \in {"list", "range"} -> EOk(IntVal(Len(iter.items)), st)
      [] iter.k \in {"function", "builtin"} -> ERaise("Unmodelled", None, st)
      [] OTHER -> ERaise("TypeError", None, st)

\* the names that add_builtins binds and their parameters
BuiltinParams ==
    [name \in {<<"p", "r", "i", "n", "t">>, <<"l", "e", "n">>,
               <<"s", "l", "i", "c", "e">>, <<"s", "t", "r">>,
               <<"i", "n", "t">>} |->
       CASE name = <<"p", "r", "i", "n", "t">> -> << <<"v", "a", "l", "u", "e">> >>
         [] name = <<"l", "e", "n">> -> << <<"i", "t", "e", "r">> >>
         [] name = <<"s", "l", "i", "c", "e">> ->
              << <<"i", "t", "e", "r">>, <<"s", "t", "a", "r", "t">>,
                 <<"s", "t", "o", "p">> >>
         [] OTHER -> << <<"i", "n">> >>]

\* function.body(args, env) for the built-in function; print writes its
\* argument to the standard output, slice is not computed
builtin_body(function, args, env, st) ==
    CASE function.name = <<"p", "r", "i", "n", "t">> ->
           EOk(None, Logged(st, [ev |-> "print",
                                 value |-> args[<<"v", "a", "l", "u", "e">>]]))
      [] function.name = <<"l", "e", "n">> ->
           builtin_len(args[<<"i", "t", "e", "r">>], st)
      [] function.name = <<"s", "t", "r">> -> builtin_str(args[<<"i", "n">>], st)
      [] function.name = <<"i", "n", "t">> -> builtin_int(args[<<"i", "n">>], st)
      [] OTHER -> ERaise("Unmodelled", None, st)

\* call_env = Environment(env, args) and the try statement of eval_call
call_function(function, args, env, st) ==
    With([entered \in {Entered(
             [st EXCEPT !.envs = Append(@, Environment(env, args)),
                        !.log = Append(@, [ev |-> "invoke",
                                           function |-> function,
                                           env |-> env,
                                           call_env |-> Len(st.envs) + 1,
                                           frame |-> [kind |-> "call",
                                                      id |-> st.entered + 1],
                                           envs |-> st.envs,
                                           created |-> Append(st.envs,
                                               Environment(env, args))])],
             "call")} |->
       With([body \in {eval_statements(function.body, Len(st.envs) + 1, entered)} |->
          IF body.exc = "Return"
          THEN EOk(body.value,
                   Left(Caught(body.st, "Return", Len(entered.frames)),
                        Len(entered.frames), "call_exit", body.value))
          ELSE IF body.exc # "" THEN body
          ELSE EOk(body.value, Left(body.st, Len(entered.frames), "call_exit",
                                    body.value))])])

eval_call(node, env, st) ==
    With([function \in {eval_expression(node.left, env, st)} |->
       IF function.exc # "" THEN function
       ELSE IF function.value.k \notin {"function", "builtin"}
       THEN ERaise("AttributeError", None, function.st)
       ELSE
       With([called \in {Logged(function.st,
                [ev |-> "call", function |-> function.value, env |-> env,
                 n_expected_args |-> Len(params_of(function.value)),
                 n_actual_args |-> Len(node.arguments),
                 envs |-> function.st.envs])} |->
          IF ArityMismatch(Len(params_of(function.value)), Len(node.arguments))
          THEN ERaise("TypeError", None, called)
          ELSE
          With([values \in {eval_items(node.arguments, 1, <<>>, env, called)} |->
             IF values.exc # "" THEN values
             ELSE
             With([evaluated \in {Logged(values.st,
                      [ev |-> "args", function |-> function.value, env |-> env,
                       values |-> values.value, frames |-> values.st.frames])} |->
                IF function.value.k = "builtin"
                THEN builtin_body(function.value,
                                  zip_dict(function.value.params, values.value),
                                  env, evaluated)
                ELSE call_function(function.value.node,
                                   zip_dict(function.value.node.params,
                                            values.value),
                                   env, evaluated)])])])])

eval_identifier(node, env, st) ==
    With([val \in {Environment_get(st.envs, env, node.value)} |->
       With([result \in {IF val = None THEN ERaise("NameError", None, st)
                         ELSE EOk(val, st)} |->
          [result EXCEPT !.st = Logged(st, [ev |-> "get", name |-> node.value,
                                            env |-> env, envs |-> st.envs,
                                            val |-> val, exc |-> result.exc,
                                            value |-> result.value])]])])

\* collection[key], for a key that is an index into a list or a string
eval_getitem(node, env, st) ==
    With([items \in {eval_items(<<node.left, node.key>>, 1, <<>>, env, st)} |->
       IF items.exc # "" THEN items
       ELSE
       With([collection \in {items.value[1]} |->
          With([key \in {items.value[2]} |->
             IF collection.k \notin {"str", "list"} \/ ~IsNumeric(key)
             THEN ERaise(IF collection.k \in {"none", "int", "bool", "float"}
                         THEN "TypeError" ELSE "Unmodelled", None, items.st)
             ELSE
             With([n \in {Len(Elements(collection))} |->
                With([i \in {IF NumOf(key) < 0 THEN NumOf(key) + n
                             ELSE NumOf(key)} |->
                   IF i < 0 \/ i >= n THEN ERaise("IndexError", None, items.st)
                   ELSE EOk(Elements(collection)[i + 1], items.st)])])])])])

eval_array(node, env, st) ==
    With([items \in {eval_items(node.items, 1, <<>>, env, st)} |->
       IF items.exc # "" THEN items
       ELSE EOk(ListVal("list", items.value), items.st)])

\* the keys and values of node.items in the order Python evaluates them
RECURSIVE KeysAndValues(_)
KeysAndValues(items) ==
    IF items = <<>> THEN <<>>
    ELSE <<items[1][1], items[1][2]>> \o KeysAndValues(Tail(items))

\* a dictionary is an object the model does not hold
eval_dict(node, env, st) ==
    With([items \in {eval_items(KeysAndValues(node.items), 1, <<>>, env, st)} |->
       IF items.exc # "" THEN items
       ELSE ERaise("Unmodelled", None, items.st)])

eval_return(node, env, st) ==
    IF node.value # None THEN eval_expression(node.value, env, st)
    ELSE EOk(None, st)

\* evaluators[type(node)](node, env)
eval_node(node, env, st) ==
    IF node = None THEN ERaise("Exception", None, st)
    ELSE
    CASE node.type = "Number" -> EOk(node.value, st)
      [] node.type = "String" -> EOk(node.value, st)
      [] node.type = "Array" -> eval_array(node, env, st)
      [] node.type = "Dictionary" -> eval_dict(node, env, st)
      [] node.type = "Identifier" -> eval_identifier(node, env, st)
      [] node.type = "BinaryOperator" -> eval_binary_operator(node, env, st)
      [] node.type = "UnaryOperator" -> eval_unary_operator(node, env, st)
      [] node.type = "SubscriptOperator" -> eval_getitem(node, env, st)
      [] node.type = "Assignment" -> eval_assignment(node, env, st)
      [] node.type = "Condition" -> eval_condition(node, env, st)
      [] node.type = "Match" -> eval_match(node, env, st)
      [] node.type = "WhileLoop" -> eval_while_loop(node, env, st)
      [] node.type = "ForLoop" -> eval_for_loop(node, env, st)
      [] node.type = "Function" -> eval_function_declaration(node, env, st)
      [] node.type = "Call" -> eval_call(node, env, st)
      [] node.type = "Return" -> eval_return(node, env, st)
      [] OTHER -> ERaise("Exception", None, st)

\* add_builtins(env): the bindings it makes
add_builtins(values) ==
    [name \in DOMAIN values \cup DOMAIN BuiltinParams |->
        IF name \in DOMAIN BuiltinParams
        THEN BuiltinFunction(name, BuiltinParams[name])
        ELSE values[name]]

\* create_global_env(): the heap that holds the one environment it returns
create_global_env == <<[Environment(0, <<>>) EXCEPT !.values = add_builtins(@)]>>

\* the environment of a session: the first on its heap
GlobalEnv == 1

\* the interpreter state in which a top-level call begins
Begin(envs) == [envs |-> envs, log |-> <<>>, frames |-> <<>>, entered |-> 0]

(***************************************************************************)
(* The pipeline's state before a stage has run                             *)
(***************************************************************************)
NotRun == [ok |-> FALSE, exc |-> "not run"]

RECURSIVE JoinLines(_)
JoinLines(lines) ==
    IF lines = <<>> THEN <<>>
    ELSE IF Len(lines) = 1 THEN lines[1]
    ELSE lines[1] \o <<NL>> \o JoinLines(Tail(lines))

\* the sequences over S of length at most n
SeqsUpTo(S, n) == UNION {[1..k -> S] : k \in 0..n}

(***************************************************************************)
(* Lexer inputs: up to MaxLines lines, each an indentation of up to        *)
(* MaxIndentWidth blanks followed by one of LexBodies                      *)
(***************************************************************************)
MaxLines == 3
MaxIndentWidth == 2
MaxStreamLines == 2

LexBodies ==
    { <<>>,                         \* a blank line
      <<"a">>,
      <<"#", "c">>,                 \* a comment alone
      <<"a", SP, SP, "b", SP>>,     \* blanks between and after tokens
      <<"x", SP, "#">>,
      <<"$">> }                     \* a character no rule matches

LexLines == {Repeat(SP, w) \o b : w \in 0..MaxIndentWidth, b \in LexBodies}

\* the sources of at most n lines
LexSources(n) == {JoinLines(ls) : ls \in SeqsUpTo(LexLines, n)}

(***************************************************************************)
(* One-line lexer inputs: every text of at most MaxChars characters over   *)
(* the quotes, the backslash, the comment sign and four letters, which     *)
(* spell the keyword in, names around it and the escapes \n, \t and \r     *)
(***************************************************************************)
MaxChars == 5

LineAlphabet == {DQ, SQ, BSL, "#", "i", "n", "t", "r"}

LineSources(n) == SeqsUpTo(LineAlphabet, n)

(***************************************************************************)
(* Parser inputs, written as source text and lexed by the model's lexer.   *)
(*                                                                         *)
(* A nest is a path of constructs, each the only statement of the body of  *)
(* the one before, with one leaf statement: in the body of the innermost   *)
(* construct, or (post) right after the innermost construct, in the body   *)
(* of the one around it.  The indentation unit is two blanks.              *)
(***************************************************************************)
MaxNest == 3

Constructs == {"while", "for", "func", "if", "elif", "else", "when", "matchelse"}

Leaves == {"break", "continue", "return", "return a", "a"}

IndentUnit == <<SP, SP>>

RECURSIVE Indent(_)
Indent(d) == IF d = 0 THEN <<>> ELSE IndentUnit \o Indent(d - 1)

At(d, text) == Indent(d) \o text

PlainStatement == <<"a">>

LeafText(leaf) ==
    CASE leaf = "break" -> <<"b", "r", "e", "a", "k">>
      [] leaf = "continue" -> <<"c", "o", "n", "t", "i", "n", "u", "e">>
      [] leaf = "return" -> <<"r", "e", "t", "u", "r", "n">>
      [] leaf = "return a" -> <<"r", "e", "t", "u", "r", "n", SP, "a">>
      [] leaf = "a" -> PlainStatement

\* the lines that open construct c at depth d, up to the header of the body
\* the nest goes on in
HeaderLines(c, d) ==
    CASE c = "while" -> << At(d, <<"w", "h", "i", "l", "e", SP, "a", ":">>) >>
      [] c = "for" -> << At(d, <<"f", "o", "r", SP, "i", SP, "i", "n", SP, "a", ":">>) >>
      [] c = "func" -> << At(d, <<"f", "u", "n", "c", SP, "f", "(", ")", ":">>) >>
      [] c = "if" -> << At(d, <<"i", "f", SP, "a", ":">>) >>
      [] c = "elif" -> << At(d, <<"i", "f", SP, "a", ":">>), At(d + 1, PlainStatement), At(d, <<"e", "l", "i", "f", SP, "a", ":">>) >>
      [] c = "else" -> << At(d, <<"i", "f", SP, "a", ":">>), At(d + 1, PlainStatement), At(d, <<"e", "l", "s", "e", ":">>) >>
      [] c = "when" -> << At(d, <<"m", "a", "t", "c", "h", SP, "a", ":">>), At(d + 1, <<"w", "h", "e", "n", SP, "1", ":">>) >>
      [] c = "matchelse" -> << At(d, <<"m", "a", "t", "c", "h", SP, "a", ":">>), At(d + 1, <<"w", "h", "e", "n", SP, "1", ":">>),
                               At(d + 2, PlainStatement), At(d + 1, <<"e", "l", "s", "e", ":">>) >>

BodyDepth(c, d) == IF c \in {"when", "matchelse"} THEN d + 2 ELSE d + 1

RECURSIVE NestLines(_, _, _, _)
NestLines(path, d, leaf, post) ==
    IF path = <<>> THEN << At(d, LeafText(leaf)) >>
    ELSE IF Len(path) = 1 /\ post
    THEN HeaderLines(path[1], d)
         \o << At(BodyDepth(path[1], d), PlainStatement), At(d, LeafText(leaf)) >>
    ELSE HeaderLines(path[1], d)
         \o NestLines(Tail(path), BodyDepth(path[1], d), leaf, post)

Nest(path, leaf, post) ==
    [kind |-> "nest", path |-> path, leaf |-> leaf, post |-> post]

\* the nests of at most n constructs
Nests(n) ==
    {Nest(path, leaf, post) :
        path \in SeqsUpTo(Constructs, n), leaf \in Leaves, post \in BOOLEAN}
    \ {Nest(<<>>, leaf, TRUE) : leaf \in Leaves}

(***************************************************************************)
(* A chain is operand op operand op ... operand on one line, every operand *)
(* of one form: a name, or a name under a unary operator, a call or a      *)
(* subscript.                                                              *)
(***************************************************************************)
MaxOperators == 2

\* every text the lexer makes an OPERATOR token of
OperatorTexts == BinaryOperators \cup {<<"!">>}

OperandForms == {"a", "-a", "!a", "a(b)", "-a(b)", "!a[b]"}

OperandText(form) ==
    CASE form = "a" -> <<"a">>
      [] form = "-a" -> <<"-", "a">>
      [] form = "!a" -> <<"!", "a">>
      [] form = "a(b)" -> <<"a", "(", "b", ")">>
      [] form = "-a(b)" -> <<"-", "a", "(", "b", ")">>
      [] form = "!a[b]" -> <<"!", "a", "[", "b", "]">>

RECURSIVE ChainText(_, _)
ChainText(form, ops) ==
    IF ops = <<>> THEN OperandText(form)
    ELSE OperandText(form) \o <<SP>> \o Head(ops) \o <<SP>> \o ChainText(form, Tail(ops))

Chain(form, ops) == [kind |-> "chain", form |-> form, ops |-> ops]

\* the chains of at most n operators
Chains(n) ==
    {Chain(form, ops) : form \in OperandForms, ops \in SeqsUpTo(OperatorTexts, n)}

(***************************************************************************)
(* An assignment target = 2 on one line, for a target of every form of     *)
(* expression                                                              *)
(***************************************************************************)
Targets == {"a", "a[b]", "(a)", "1", "'s'", "f()", "a+b", "-a", "[a]", "{a:b}"}

TargetText(target) ==
    CASE target = "a" -> <<"a">>
      [] target = "a[b]" -> <<"a", "[", "b", "]">>
      [] target = "(a)" -> <<"(", "a", ")">>
      [] target = "1" -> <<"1">>
      [] target = "'s'" -> <<SQ, "s", SQ>>
      [] target = "f()" -> <<"f", "(", ")">>
      [] target = "a+b" -> <<"a", "+", "b">>
      [] target = "-a" -> <<"-", "a">>
      [] target = "[a]" -> <<"[", "a", "]">>
      [] target = "{a:b}" -> <<"{", "a", ":", "b", "}">>

Assign(target) == [kind |-> "assign", target |-> target]

Assigns == {Assign(target) : target \in Targets}

(***************************************************************************)
(* Programs to run.  A flow is a nest of loops, conditions and functions   *)
(* around one statement: every loop runs twice (a while loop counts i up   *)
(* to 2, a for loop walks 0..2), every function is called once where it is *)
(* declared, and one statement follows the nest in every body.  The names  *)
(* of a construct end in the digit of its depth.                           *)
(***************************************************************************)
MaxFlowDepth == 3

FlowConstructs == {"while", "for", "func", "if"}

FlowLeaves == {"break", "continue", "return", "return 7", "m=1"}

FlowLeafText(leaf) ==
    CASE leaf = "break" -> <<"b", "r", "e", "a", "k">>
      [] leaf = "continue" -> <<"c", "o", "n", "t", "i", "n", "u", "e">>
      [] leaf = "return" -> <<"r", "e", "t", "u", "r", "n">>
      [] leaf = "return 7" -> <<"r", "e", "t", "u", "r", "n", SP, "7">>
      [] leaf = "m=1" -> <<"m", "=", "1">>

RECURSIVE FlowLines(_, _, _)
FlowLines(path, d, leaf) ==
    IF path = <<>> THEN << At(d, FlowLeafText(leaf)) >>
    ELSE
    CASE path[1] = "while" ->
           << At(d, <<"i">> \o DigitsOf(d) \o <<"=", "0">>),
              At(d, <<"w", "h", "i", "l", "e", SP, "i">> \o DigitsOf(d) \o <<"<", "2", ":">>),
              At(d + 1, <<"i">> \o DigitsOf(d) \o <<"=", "i">> \o DigitsOf(d) \o <<"+", "1">>) >>
           \o FlowLines(Tail(path), d + 1, leaf)
           \o << At(d + 1, <<"n">> \o DigitsOf(d) \o <<"=", "1">>) >>
      [] path[1] = "for" ->
           << At(d, <<"f", "o", "r", SP, "j">> \o DigitsOf(d) \o <<SP, "i", "n", SP, "0", ".", ".", "2", ":">>) >>
           \o FlowLines(Tail(path), d + 1, leaf)
           \o << At(d + 1, <<"n">> \o DigitsOf(d) \o <<"=", "1">>) >>
      [] path[1] = "if" ->
           << At(d, <<"i", "f", SP, "1", ":">>) >>
           \o FlowLines(Tail(path), d + 1, leaf)
           \o << At(d + 1, <<"n">> \o DigitsOf(d) \o <<"=", "1">>) >>
      [] path[1] = "func" ->
           << At(d, <<"f", "u", "n", "c", SP, "f">> \o DigitsOf(d) \o <<"(", ")", ":">>) >>
           \o FlowLines(Tail(path), d + 1, leaf)
           \o << At(d + 1, <<"n">> \o DigitsOf(d) \o <<"=", "1">>),
                 At(d, <<"r">> \o DigitsOf(d) \o <<"=", "f">> \o DigitsOf(d) \o <<"(", ")">>) >>

Flow(path, leaf) == [kind |-> "flow", path |-> path, leaf |-> leaf]

\* the flows of at most n constructs
Flows(n) ==
    {Flow(path, leaf) : path \in SeqsUpTo(FlowConstructs, n), leaf \in FlowLeaves}

(***************************************************************************)
(* A scope is a chain of calls: the top level calls f1, f1 calls f2, and   *)
(* so on, each function declared at the top level.  The top level and      *)
(* every function may bind x before it goes on, to a number or, through    *)
(* print, to None; the last of the chain ends in a tail that looks x up or *)
(* calls a built-in.  A call passes numbers ("1") and the None that print  *)
(* returns ("n"), as many as its frame says, which need not be as many as  *)
(* the function has parameters.                                            *)
(***************************************************************************)
MaxCallDepth == 2

Binds == {"", "1", "n"}

Tails == {"x", "print()", "len(print(0),1)"}

CallFrame(params, args, bind) == [params |-> params, args |-> args, bind |-> bind]

CallFrames ==
    { CallFrame(<<>>, <<>>, ""),
      CallFrame(<<>>, <<>>, "1"),
      CallFrame(<<>>, <<>>, "n"),
      CallFrame(<<"x">>, <<"n">>, ""),
      CallFrame(<<"a", "x">>, <<"n", "1">>, ""),
      CallFrame(<<"a", "b">>, <<"1", "n">>, ""),
      CallFrame(<<"a", "a">>, <<"n", "1">>, ""),
      CallFrame(<<"a">>, <<>>, ""),
      CallFrame(<<"a">>, <<"n", "1">>, "1") }

\* the texts of items with commas between them
RECURSIVE Commas(_)
Commas(items) ==
    IF items = <<>> THEN <<>>
    ELSE IF Len(items) = 1 THEN items[1]
    ELSE items[1] \o <<",">> \o Commas(Tail(items))

ArgText(arg, level) == IF arg = "n" THEN <<"p", "r", "i", "n", "t", "(", "0", ")">> ELSE DigitsOf(level)

\* the statement that binds x at a level, if the level binds it
BindLines(bind, d, level) ==
    CASE bind = "" -> <<>>
      [] bind = "1" -> << At(d, <<"x", "=">> \o DigitsOf(level)) >>
      [] bind = "n" -> << At(d, <<"x", "=", "p", "r", "i", "n", "t", "(", "0", ")">>) >>

TailText(tail) ==
    CASE tail = "x" -> <<"x">>
      [] tail = "print()" -> <<"p", "r", "i", "n", "t", "(", ")">>
      [] tail = "len(print(0),1)" -> <<"l", "e", "n", "(", "p", "r", "i", "n", "t", "(", "0", ")", ",", "1", ")">>

\* what level goes on with: the call of the next function of the chain, or
\* the tail
GoOn(frames, level, tail) ==
    IF level < Len(frames)
    THEN <<"f">> \o DigitsOf(level + 1) \o <<"(">>
         \o Commas([i \in 1..Len(frames[level + 1].args) |->
                      ArgText(frames[level + 1].args[i], level + 1)])
         \o <<")">>
    ELSE TailText(tail)

RECURSIVE FunctionLines(_, _, _)
\* the declarations of the functions from number level on
FunctionLines(frames, level, tail) ==
    IF level > Len(frames) THEN <<>>
    ELSE << At(0, <<"f", "u", "n", "c", SP, "f">> \o DigitsOf(level) \o <<"(">>
                  \o Commas([i \in 1..Len(frames[level].params) |->
                               <<frames[level].params[i]>>])
                  \o <<")", ":">>) >>
         \o BindLines(frames[level].bind, 1, level)
         \o << At(1, <<"r", "e", "t", "u", "r", "n", SP>> \o GoOn(frames, level, tail)) >>
         \o FunctionLines(frames, level + 1, tail)

ScopeLines(sh) ==
    FunctionLines(sh.frames, 1, sh.tail)
    \o BindLines(sh.bind, 0, 0)
    \o << <<"r", "=">> \o GoOn(sh.frames, 0, sh.tail) >>

Scope(bind, frames, tail) ==
    [kind |-> "scope", bind |-> bind, frames |-> frames, tail |-> tail]

\* the scopes of at most n calls: every binding of x at the top level with
\* the tail that looks x up, and every tail with no binding at the top level
Scopes(n) ==
    {Scope(bind, frames, "x") :
        bind \in Binds, frames \in SeqsUpTo(CallFrames, n)}
    \cup {Scope("", frames, tail) :
            frames \in SeqsUpTo(CallFrames, n), tail \in Tails}

(***************************************************************************)
(* A session is a sequence of at most MaxTurns top-level calls on the      *)
(* environment repl() creates, each given one buffer: a binding of x to a  *)
(* number or to None, a function declaration, a for loop, a lookup of a    *)
(* name an earlier buffer may have bound, or a text whose last line the    *)
(* lexer or the parser rejects.  As repl() builds it, a buffer begins with *)
(* a line break.                                                           *)
(***************************************************************************)
MaxTurns == 3

Buffers ==
    {"x=1", "x=None", "func f", "for j",
     "r=x", "r=f()", "r=j", "lexical error",
     "syntax error", "operator !"}

BufferLines(buffer) ==
    CASE buffer = "x=1" ->
           << <<"x", "=", "1">> >>
      [] buffer = "x=None" ->
           << <<"x", "=", "p", "r", "i", "n", "t", "(", "0", ")">> >>
      [] buffer = "func f" ->
           << <<"f", "u", "n", "c", SP, "f", "(", ")", ":">>,
              <<SP, SP, "y", "=", "2">>,
              <<SP, SP, "r", "e", "t", "u", "r", "n", SP, "y">> >>
      [] buffer = "for j" ->
           << <<"f", "o", "r", SP, "j", SP, "i", "n", SP, "0", ".", ".", "1", ":">>,
              <<SP, SP, "x", "=", "j">> >>
      [] buffer = "r=x" ->
           << <<"r", "=", "x">> >>
      [] buffer = "r=f()" ->
           << <<"r", "=", "f", "(", ")">> >>
      [] buffer = "r=j" ->
           << <<"r", "=", "j">> >>
      [] buffer = "lexical error" ->
           << <<"z", "=", "1">>,
              <<"$">> >>
      [] buffer = "syntax error" ->
           << <<"z", "=", "1">>,
              <<"b", "r", "e", "a", "k">> >>
      [] buffer = "operator !" ->
           << <<"z", "=", "1">>,
              <<"z", SP, "!", SP, "1">> >>

Repl(turn, buffer) == [kind |-> "repl", turn |-> turn, buffer |-> buffer]

Repls == {Repl(1, buffer) : buffer \in Buffers}

Render(sh) ==
    CASE sh.kind = "nest" -> JoinLines(NestLines(sh.path, 0, sh.leaf, sh.post))
      [] sh.kind = "chain" -> ChainText(sh.form, sh.ops)
      [] sh.kind = "flow" -> JoinLines(FlowLines(sh.path, 0, sh.leaf))
      [] sh.kind = "scope" -> JoinLines(ScopeLines(sh))
      [] sh.kind = "assign" -> TargetText(sh.target) \o <<SP, "=", SP, "2">>
      [] sh.kind = "repl" -> <<NL>> \o JoinLines(BufferLines(sh.buffer))

(***************************************************************************)
(* Actions                                                                 *)
(***************************************************************************)
\* Lexer().tokenize(source)
Tokenize ==
    /\ pc = "source"
    /\ lexed' = tokenize(source)
    /\ pc' = "lexed"
    /\ UNCHANGED <<shape, source, parsed, session, stream, outcome>>

\* Parser().parse(TokenStream(tokens)), reached only when the lexer returned
Parse ==
    /\ pc = "lexed"
    /\ lexed.ok
    /\ parsed' = Parser_parse(lexed.tokens)
    /\ pc' = "parsed"
    /\ UNCHANGED <<shape, source, lexed, session, stream, outcome>>

\* the return of evaluate_env after report_syntax_error, or the syntax error
\* raised again in verbose mode
Refused(err, verbose, envs) ==
    IF verbose
    THEN [exc |-> err.exc, value |-> None, st |-> Begin(envs), reported |-> TRUE,
          message |-> err.message, line |-> err.line, column |-> err.column]
    ELSE [exc |-> "", value |-> None, st |-> Begin(envs), reported |-> TRUE,
          message |-> err.message, line |-> err.line, column |-> err.column]

\* what evaluate_env returns or raises once the lexer and the parser have
\* run, for env the first environment of the heap envs
Evaluated(lex, program, verbose, envs) ==
    IF ~lex.ok THEN Refused(lex, verbose, envs)
    ELSE IF program.exc = "AbrvalgSyntaxError" THEN Refused(program, verbose, envs)
    ELSE IF program.exc # ""
    THEN [exc |-> program.exc, value |-> None, st |-> Begin(envs),
          reported |-> FALSE]
    ELSE [reported |-> FALSE]
         @@ eval_statements(program.node.body, GlobalEnv, Begin(envs))

\* evaluate_env(source, env, verbose) for the environment of the session;
\* once the call is over nothing refers to the environments of its calls
evaluate_env ==
    /\ pc = "source"
    /\ \E verbose \in BOOLEAN :
         /\ lexed' = tokenize(source)
         /\ parsed' = IF lexed'.ok THEN Parser_parse(lexed'.tokens) ELSE NotRun
         /\ outcome' = [call |-> "evaluate_env", verbose |-> verbose]
                        @@ Evaluated(lexed', parsed', verbose, session)
    /\ session' = <<outcome'.st.envs[GlobalEnv]>>
    /\ pc' = "evaluated"
    /\ UNCHANGED <<shape, source, stream>>

\* evaluate(source, verbose): evaluate_env in a new global environment
evaluate ==
    /\ pc = "source"
    /\ \E verbose \in BOOLEAN :
         /\ lexed' = tokenize(source)
         /\ parsed' = IF lexed'.ok THEN Parser_parse(lexed'.tokens) ELSE NotRun
         /\ outcome' = [call |-> "evaluate", verbose |-> verbose]
                        @@ Evaluated(lexed', parsed', verbose, create_global_env)
    /\ pc' = "evaluated"
    /\ UNCHANGED <<shape, source, session, stream>>

\* repl(): the next buffer is read once the call on the last one is over
repl ==
    /\ pc = "evaluated"
    /\ shape.kind = "repl"
    /\ shape.turn < MaxTurns
    /\ \E buffer \in Buffers : shape' = Repl(shape.turn + 1, buffer)
    /\ source' = Render(shape')
    /\ pc' = "source"
    /\ UNCHANGED <<lexed, parsed, session, stream, outcome>>

\* what a call on the stream leaves: the cursor moves only when the call
\* returns
Moved(result) ==
    IF result.exc = "" THEN [stream EXCEPT !._pos = result.pos] ELSE stream

\* stream.current()
Current ==
    /\ pc = "stream"
    /\ outcome' = [call |-> "current"] @@ current(stream._tokens, stream._pos)
    /\ stream' = Moved(outcome')
    /\ UNCHANGED <<pc, shape, source, lexed, parsed, session>>

\* stream.consume()
Consume ==
    /\ pc = "stream"
    /\ outcome' = [call |-> "consume"] @@ consume(stream._tokens, stream._pos)
    /\ stream' = Moved(outcome')
    /\ UNCHANGED <<pc, shape, source, lexed, parsed, session>>

\* stream.is_end()
IsEnd ==
    /\ pc = "stream"
    /\ outcome' = [call |-> "is_end", exc |-> "",
                   value |-> is_end(stream._tokens, stream._pos)]
    /\ UNCHANGED <<pc, shape, source, lexed, parsed, session, stream>>

Text(s) == [kind |-> "text"]

LexInit ==
    /\ pc = "source"
    /\ source \in LexSources(MaxLines)
    /\ shape = Text(source)
    /\ lexed = NotRun
    /\ parsed = NotRun
    /\ session = <<>>
    /\ stream = TokenStream(<<>>)
    /\ outcome = NotRun

LexNext == Tokenize

LexSpec == LexInit /\ [][LexNext]_vars

LineInit ==
    /\ pc = "source"
    /\ source \in LineSources(MaxChars)
    /\ shape = Text(source)
    /\ lexed = NotRun
    /\ parsed = NotRun
    /\ session = <<>>
    /\ stream = TokenStream(<<>>)
    /\ outcome = NotRun

LineNext == Tokenize

LineSpec == LineInit /\ [][LineNext]_vars

ParseInit ==
    /\ pc = "source"
    /\ shape \in Nests(MaxNest) \cup Chains(MaxOperators) \cup Assigns
    /\ source = Render(shape)
    /\ lexed = NotRun
    /\ parsed = NotRun
    /\ session = <<>>
    /\ stream = TokenStream(<<>>)
    /\ outcome = NotRun

ParseNext == Tokenize \/ Parse

ParseSpec == ParseInit /\ [][ParseNext]_vars

\* a stream over the tokens of an accepted source of at most MaxStreamLines
\* lines, the empty token sequence among them
StreamInit ==
    /\ pc = "stream"
    /\ source \in LexSources(MaxStreamLines)
    /\ shape = Text(source)
    /\ lexed = tokenize(source)
    /\ lexed.ok
    /\ parsed = NotRun
    /\ session = <<>>
    /\ stream = TokenStream(lexed.tokens)
    /\ outcome = NotRun

StreamNext == Current \/ Consume \/ IsEnd

StreamSpec == StreamInit /\ [][StreamNext]_vars

EvalInit ==
    /\ pc = "source"
    /\ shape \in Flows(MaxFlowDepth) \cup Scopes(MaxCallDepth) \cup Repls
    /\ source = Render(shape)
    /\ lexed = NotRun
    /\ parsed = NotRun
    /\ session = create_global_env
    /\ stream = TokenStream(<<>>)
    /\ outcome = NotRun

EvalNext == evaluate \/ evaluate_env \/ repl

EvalSpec == EvalInit /\ [][EvalNext]_vars

(***************************************************************************)
(* Claims about the lexer                                                  *)
(***************************************************************************)
Accepted == pc = "lexed" /\ lexed.ok

NewlinesOfLine(tokens, n) ==
    Cardinality({i \in 1..Len(tokens) :
                    tokens[i].name = "NEWLINE" /\ tokens[i].line = n})

TotalNewlines(tokens) ==
    Cardinality({i \in 1..Len(tokens) : tokens[i].name = "NEWLINE"})

SourceLines == splitlines(source)

NonEmptyLines == {n \in 1..Len(SourceLines) : RStrip(SourceLines[n]) # <<>>}

\* a line that holds something other than blanks and a comment
HoldsCode(line) ==
    LET e == SpanEnd(line, 1, Blank)
    IN e <= Len(line) /\ line[e] # "#"

CodeLines == {n \in 1..Len(lexed.source_lines) : HoldsCode(lexed.source_lines[n])}

RECURSIVE Depths(_, _)
\* the running INDENT - DEDENT count after each token
Depths(tokens, d) ==
    IF tokens = <<>> THEN <<>>
    ELSE LET d1 == CASE Head(tokens).name = "INDENT" -> d + 1
                     [] Head(tokens).name = "DEDENT" -> d - 1
                     [] OTHER -> d
         IN <<d1>> \o Depths(Tail(tokens), d1)

\* C2: in the tokens of an accepted source the running count of INDENT minus
\* DEDENT is never negative and is 0 at the end.
C2_IndentsBalanced ==
    Accepted =>
        LET ds == Depths(lexed.tokens, 0)
        IN /\ \A i \in 1..Len(ds) : ds[i] >= 0
           /\ ds # <<>> => ds[Len(ds)] = 0

\* an accepted source that indents by two levels, dedents before a later
\* line and still ends indented
C2_Witness ==
    /\ Accepted
    /\ LET ds == Depths(lexed.tokens, 0)
       IN /\ \E i \in 1..Len(ds) : ds[i] = 2
          /\ \E i, j \in 1..Len(ds) :
                /\ i < j /\ j < Len(ds)
                /\ lexed.tokens[i].name = "DEDENT"
                /\ lexed.tokens[j].name = "INDENT"
          /\ lexed.tokens[Len(lexed.tokens)].name = "DEDENT"

\* C10: every token of an accepted source has line >= 1 and column >= 1, and
\* the text of a NAME token stands at (line, column) of the original source.
C10_TokenPositions ==
    Accepted =>
        \A i \in 1..Len(lexed.tokens) :
            LET tk == lexed.tokens[i]
            IN /\ tk.line >= 1
               /\ tk.column >= 1
               /\ tk.name = "NAME" =>
                     StartsWithAt(SourceLines[tk.line], tk.column, tk.value.s)

(***************************************************************************)
(* Claims about the parser                                                 *)
(***************************************************************************)
ParsedNest == pc = "parsed" /\ shape.kind = "nest"

\* the constructs whose bodies the leaf statement of a nest lies in
Enclosing(sh) ==
    IF sh.post THEN Slice(sh.path, 1, Len(sh.path) - 1) ELSE sh.path

IsLoop(c) == c \in {"while", "for"}

IsFunction(c) == c = "func"

\* the innermost function or loop construct around the leaf is a loop
InLoopBody(sh) ==
    LET around == Enclosing(sh)
        marks == {i \in 1..Len(around) : IsLoop(around[i]) \/ IsFunction(around[i])}
    IN marks # {} /\ IsLoop(around[CHOOSE i \in marks : \A j \in marks : j <= i])

InFunctionBody(sh) ==
    \E i \in 1..Len(Enclosing(sh)) : IsFunction(Enclosing(sh)[i])

LeafInContext(sh) ==
    CASE sh.leaf \in {"break", "continue"} -> InLoopBody(sh)
      [] sh.leaf \in {"return", "return a"} -> InFunctionBody(sh)
      [] OTHER -> TRUE

\* the leaf is the last line of a nest
LeafLine == Len(SourceLines)

\* the first token of the leaf line after the line's indentation tokens
LeafToken ==
    lexed.tokens[Min({i \in 1..Len(lexed.tokens) :
                        /\ lexed.tokens[i].line = LeafLine
                        /\ lexed.tokens[i].name \notin {"INDENT", "DEDENT"}})]

\* the column of the leaf's first character in its source line
LeafColumn == Len(SourceLines[LeafLine]) - Len(LeafText(shape.leaf)) + 1

\* what the parser does with the leaf: accepted exactly in its context, and
\* refused with the syntax error at the line and column of the leaf's token
ControlContextByToken ==
    ParsedNest =>
        IF LeafInContext(shape)
        THEN parsed.exc = "" /\ parsed.node.type = "Program"
        ELSE /\ parsed.exc = "AbrvalgSyntaxError"
             /\ parsed.line = LeafLine
             /\ parsed.column = LeafToken.column

\* C3: a break or continue is accepted exactly when the innermost function
\* or loop construct around it is a loop, a return exactly when some
\* function body is around it; outside its context the statement makes the
\* parse fail with the syntax error carrying the line and the column of the
\* statement in the source.
C3_ControlContext ==
    ParsedNest =>
        IF LeafInContext(shape)
        THEN parsed.exc = "" /\ parsed.node.type = "Program"
        ELSE /\ parsed.exc = "AbrvalgSyntaxError"
             /\ parsed.line = LeafLine
             /\ parsed.column = LeafColumn

\* a break in an if block of a function body nested in a loop is refused,
\* with a column that is not the statement's
C3_Witness ==
    /\ ParsedNest
    /\ shape = Nest(<<"while", "func", "if">>, "break", FALSE)
    /\ parsed.exc = "AbrvalgSyntaxError"
    /\ parsed.line = 4
    /\ LeafColumn = 7
    /\ parsed.column = 1

\* C8: Parser.parse either returns a Program node or fails with the syntax
\* error; it ends with no other kind of exception.
C8_ProgramOrSyntaxError ==
    pc = "parsed" =>
        \/ parsed.exc = "" /\ parsed.node.type = "Program"
        \/ parsed.exc = "AbrvalgSyntaxError"

ParsedChain ==
    /\ pc = "parsed"
    /\ shape.kind = "chain"
    /\ \A i \in 1..Len(shape.ops) : shape.ops[i] \in BinaryOperators

\* the binding powers as the claim orders them
ClaimedPower(op) ==
    CASE op \in {<<".", ".">>, <<".", ".", ".">>} -> 1
      [] op = <<"|", "|">> -> 2
      [] op = <<"&", "&">> -> 3
      [] op \in {<<"=", "=">>, <<"!", "=">>} -> 4
      [] op \in {<<"<">>, <<"<", "=">>, <<">">>, <<">", "=">>} -> 5
      [] op \in {<<"+">>, <<"-">>} -> 6
      [] op \in {<<"*">>, <<"/">>, <<"%">>} -> 7

RECURSIVE Unparse(_)
RECURSIVE UnparseList(_)
\* the token texts a tree without groups was parsed from
Unparse(node) ==
    CASE node.type = "Identifier" -> <<node.value>>
      [] node.type = "BinaryOperator" ->
            Unparse(node.left) \o <<node.operator>> \o Unparse(node.right)
      [] node.type = "UnaryOperator" -> <<node.operator>> \o Unparse(node.right)
      [] node.type = "Call" ->
            Unparse(node.left) \o << <<"(">> >> \o UnparseList(node.arguments)
            \o << <<")">> >>
      [] node.type = "SubscriptOperator" ->
            Unparse(node.left) \o << <<"[">> >> \o Unparse(node.key) \o << <<"]">> >>

UnparseList(nodes) ==
    IF nodes = <<>> THEN <<>>
    ELSE IF Len(nodes) = 1 THEN Unparse(nodes[1])
    ELSE Unparse(nodes[1]) \o << <<",">> >> \o UnparseList(Tail(nodes))

RECURSIVE WellNested(_)
\* a higher binding power lies deeper, equal powers nest to the left, a
\* unary operand takes a call or subscript and no binary operator
WellNested(node) ==
    CASE node.type = "BinaryOperator" ->
            /\ node.left.type = "BinaryOperator" =>
                  ClaimedPower(node.left.operator) >= ClaimedPower(node.operator)
            /\ node.right.type = "BinaryOperator" =>
                  ClaimedPower(node.right.operator) > ClaimedPower(node.operator)
            /\ WellNested(node.left)
            /\ WellNested(node.right)
      [] node.type = "UnaryOperator" ->
            /\ node.right.type \in {"Identifier", "Call", "SubscriptOperator"}
            /\ WellNested(node.right)
      [] node.type \in {"Call", "SubscriptOperator"} ->
            node.left.type = "Identifier"
      [] OTHER -> TRUE

TokenTexts ==
    [i \in 1..(Len(lexed.tokens) - 1) |-> lexed.tokens[i].value.s]

\* C9: a chain of binary operators parses to the tree the binding powers
\* dictate: the operands and operators in source order, a higher power
\* deeper, equal powers nested to the left, a unary operator over its
\* operand with that operand's call or subscript and nothing more.
C9_PrecedenceTree ==
    ParsedChain =>
        /\ parsed.exc = ""
        /\ Len(parsed.node.body) = 1
        /\ Unparse(parsed.node.body[1]) = TokenTexts
        /\ WellNested(parsed.node.body[1])

\* -a(b) + -a(b) * -a(b) has parsed
C9_Witness ==
    /\ ParsedChain
    /\ shape = Chain("-a(b)", << <<"+">>, <<"*">> >>)
    /\ parsed.exc = ""
    /\ parsed.node.body[1].operator = <<"+">>
    /\ parsed.node.body[1].right.operator = <<"*">>
    /\ parsed.node.body[1].left.right.type = "Call"

(***************************************************************************)
(* Interpreter claims, over the state a top-level call leaves              *)
(***************************************************************************)
\* the program was accepted by the lexer and the parser and has been run
Ran == pc = "evaluated" /\ lexed.ok /\ parsed.exc = ""

Log == outcome.st.log

Signals == {"Break", "Continue", "Return"}

\* the place in frames of the loop or call a signal raised under frames has
\* to end in, 0 when there is none: for Break and Continue the loop whose
\* body is executing the statement, for Return the innermost call
Boundary(signal, frames) ==
    IF signal = "Return"
    THEN IF \E i \in 1..Len(frames) : frames[i].kind = "call"
         THEN Max({i \in 1..Len(frames) : frames[i].kind = "call"})
         ELSE 0
    ELSE IF frames # <<>> /\ Top(frames).kind = "loop" THEN Len(frames) ELSE 0

\* what the loop or call at place b of event e's frames does next, once it
\* has caught the signal of e
Delivered(e, b, next) ==
    CASE e.signal = "Break" ->
           /\ next.ev = "loop_exit" /\ next.frame = e.frames[b]
           /\ next.frames = SubSeq(e.frames, 1, b - 1) /\ next.value = None
      [] e.signal = "Continue" ->
           next = [ev |-> "test", frame |-> e.frames[b]]
      [] e.signal = "Return" ->
           /\ next.ev = "call_exit" /\ next.frame = e.frames[b]
           /\ next.frames = SubSeq(e.frames, 1, b - 1) /\ next.value = e.value

\* C4: in every accepted program every Break, Continue and Return raised is
\* caught by its boundary and by nothing before it: the innermost loop ends
\* on a Break and the loops around it stay active, goes to its next test or
\* element on a Continue, the innermost call returns the value a Return
\* carries; no signal leaves the top-level call.
C4_SignalsReachTheirBoundary ==
    Ran =>
      /\ outcome.exc \notin Signals
      /\ \A i \in 1..Len(Log) :
           Log[i].ev = "raise" =>
             /\ Boundary(Log[i].signal, Log[i].frames) # 0
             /\ i + 2 <= Len(Log)
             /\ Log[i + 1] = [ev |-> "catch", signal |-> Log[i].signal,
                              frame |-> Log[i].frames[
                                  Boundary(Log[i].signal, Log[i].frames)]]
             /\ Delivered(Log[i], Boundary(Log[i].signal, Log[i].frames),
                          Log[i + 2])

\* the global bindings the run has left
Globals == outcome.st.envs[GlobalEnv].values

\* a break in a for loop in a while loop: the for loop ends twice in its
\* first round (n1 and n2 are never bound), the while loop runs both rounds
C4_Witness ==
    /\ Ran
    /\ shape = Flow(<<"while", "for", "if">>, "break")
    /\ outcome.exc = ""
    /\ Cardinality({i \in 1..Len(Log) : Log[i].ev = "raise"}) = 2
    /\ Globals[<<"i", "0">>] = IntVal(2)
    /\ Globals[<<"n", "0">>] = IntVal(1)
    /\ Globals[<<"j", "1">>] = IntVal(0)
    /\ <<"n", "1">> \notin DOMAIN Globals

RECURSIVE Nearest(_, _, _)
\* the nearest environment from env up that binds name, 0 when none does
Nearest(envs, env, name) ==
    IF name \in DOMAIN envs[env].values THEN env
    ELSE IF envs[env].parent = 0 THEN 0
    ELSE Nearest(envs, envs[env].parent, name)

\* C5: every lookup returns the value the name is bound to in the nearest
\* environment that binds it, whatever the value, and raises NameError
\* exactly when no environment of the chain binds the name.
C5_LookupNearestBinding ==
    Ran =>
      \A i \in 1..Len(Log) :
        Log[i].ev = "get" =>
          IF Nearest(Log[i].envs, Log[i].env, Log[i].name) = 0
          THEN Log[i].exc = "NameError"
          ELSE /\ Log[i].exc = ""
               /\ Log[i].value =
                    Log[i].envs[Nearest(Log[i].envs, Log[i].env, Log[i].name)]
                       .values[Log[i].name]

RECURSIVE NearestValue(_, _, _)
\* the nearest environment from env up that binds name to a value other
\* than None, 0 when none does
NearestValue(envs, env, name) ==
    IF name \in DOMAIN envs[env].values /\ envs[env].values[name] # None
    THEN env
    ELSE IF envs[env].parent = 0 THEN 0
    ELSE NearestValue(envs, envs[env].parent, name)

\* what lookups do: a binding to None counts as no binding
LookupNearestValue ==
    Ran =>
      \A i \in 1..Len(Log) :
        Log[i].ev = "get" =>
          IF NearestValue(Log[i].envs, Log[i].env, Log[i].name) = 0
          THEN Log[i].exc = "NameError"
          ELSE /\ Log[i].exc = ""
               /\ Log[i].value =
                    Log[i].envs[NearestValue(Log[i].envs, Log[i].env, Log[i].name)]
                       .values[Log[i].name]

\* x = print(0) binds x to None at the top level; the lookup of x that
\* follows raises NameError
C5_Witness ==
    /\ Ran
    /\ shape = Scope("n", <<>>, "x")
    /\ outcome.exc = "NameError"
    /\ Log[Len(Log)].ev = "get"
    /\ Log[Len(Log)].name = <<"x">>
    /\ Log[Len(Log)].envs[GlobalEnv].values[<<"x">>] = None

\* the invocations of user-defined functions: the calls that passed the
\* arity test and whose arguments have been evaluated
Invocations ==
    {i \in 1..Len(Log) : Log[i].ev = "args" /\ Log[i].function.k = "function"}

\* the environment of the code that is executing under frames: the
\* environment the innermost call was given, the global one outside any call
CurrentEnv(frames) ==
    IF Boundary("Return", frames) = 0 THEN GlobalEnv
    ELSE Log[CHOOSE j \in 1..Len(Log) :
               /\ Log[j].ev = "invoke"
               /\ Log[j].frame = frames[Boundary("Return", frames)]].call_env

\* the last parameter of the name that parameter number p has
LastOf(params, p) == Max({q \in 1..Len(params) : params[q] = params[p]})

\* C6: every invocation of a user-defined function puts exactly one new
\* environment on the heap, whose parent is the environment of the code
\* that makes the call and which binds exactly the parameters, each to the
\* argument value at its position; no environment is created otherwise.
C6_CallEnvironment ==
    Ran =>
      /\ Len(outcome.st.envs) = 1 + Cardinality(Invocations)
      /\ \A i \in Invocations :
           /\ i < Len(Log)
           /\ Log[i + 1].ev = "invoke"
           /\ Log[i].function = FunctionVal(Log[i + 1].function)
           /\ Log[i].env = CurrentEnv(Log[i].frames)
           /\ Len(Log[i + 1].created) = Len(Log[i + 1].envs) + 1
           /\ SubSeq(Log[i + 1].created, 1, Len(Log[i + 1].envs)) = Log[i + 1].envs
           /\ Log[i + 1].call_env = Len(Log[i + 1].created)
           /\ Log[i + 1].created[Log[i + 1].call_env].parent = Log[i].env
           /\ DOMAIN Log[i + 1].created[Log[i + 1].call_env].values
                = {Log[i].function.node.params[p] :
                     p \in 1..Len(Log[i].function.node.params)}
           /\ Len(Log[i].values) = Len(Log[i].function.node.params)
           /\ \A p \in 1..Len(Log[i].function.node.params) :
                p = LastOf(Log[i].function.node.params, p) =>
                  Log[i + 1].created[Log[i + 1].call_env]
                     .values[Log[i].function.node.params[p]] = Log[i].values[p]

\* f1 binds x to 1 and calls f2(2, print(0)), both declared at the top
\* level: the environment of f2 has the one of f1 as its parent, binds a
\* and b, and the x that f2 returns is the x of f1
C6_Witness ==
    /\ Ran
    /\ shape = Scope("", <<CallFrame(<<>>, <<>>, "1"),
                           CallFrame(<<"a", "b">>, <<"1", "n">>, "")>>, "x")
    /\ outcome.exc = ""
    /\ Len(outcome.st.envs) = 3
    /\ outcome.st.envs[2].parent = GlobalEnv
    /\ outcome.st.envs[3].parent = 2
    /\ outcome.st.envs[3].values = (<<"a">> :> IntVal(2) @@ <<"b">> :> None)
    /\ Globals[<<"r">>] = IntVal(1)
    /\ <<"x">> \notin DOMAIN Globals

\* the calls whose number of arguments is not the callee's number of
\* parameters
Mismatches ==
    {i \in 1..Len(Log) :
       /\ Log[i].ev = "call"
       /\ Log[i].n_expected_args # Log[i].n_actual_args}

\* C7: a call with a number of arguments other than the callee's number of
\* parameters raises TypeError at once: nothing is evaluated after the
\* callee, no environment is created and no binding changes.
C7_ArityFaultsFirst ==
    Ran =>
      \A i \in Mismatches :
        /\ i = Len(Log)
        /\ outcome.exc = "TypeError"
        /\ outcome.st.envs = Log[i].envs

\* f1 of one parameter called with print(0) and 1: TypeError, and print has
\* neither been looked up nor called
C7_Witness ==
    /\ Ran
    /\ shape = Scope("1", <<CallFrame(<<"a">>, <<"n", "1">>, "1")>>, "x")
    /\ outcome.exc = "TypeError"
    /\ Mismatches = {Len(Log)}
    /\ Log[Len(Log)].function.k = "function"
    /\ \A i \in 1..Len(Log) : Log[i].ev = "get" => Log[i].name = <<"f", "1">>
    /\ <<"r">> \notin DOMAIN Globals

(***************************************************************************)
(* Claims about the top-level calls                                        *)
(***************************************************************************)
\* a step that is a call of evaluate_env on a source the lexer or the parser
\* does not accept
RefusedCall ==
    /\ pc = "source"
    /\ pc' = "evaluated"
    /\ outcome'.call = "evaluate_env"
    /\ \/ ~lexed'.ok
       \/ parsed'.exc # ""

\* the error the lexer or the parser ended with in the state after the step
StageError == IF ~lexed.ok THEN lexed ELSE parsed

\* no statement was evaluated and the environment is as it was
NothingEvaluated ==
    /\ outcome'.st.log = <<>>
    /\ outcome'.st.envs = session
    /\ session' = session

\* C11: a call of evaluate_env whose source the lexer or the parser does not
\* accept evaluates no statement and leaves the environment as it was; it
\* reports the error; in normal mode it returns nothing, in verbose mode it
\* raises the syntax error of the lexer or the parser again.
C11_FailureLeavesEnvironment ==
    [][RefusedCall =>
         /\ NothingEvaluated
         /\ outcome'.reported
         /\ IF outcome'.verbose
            THEN /\ outcome'.exc = "AbrvalgSyntaxError"
                 /\ outcome'.message = StageError'.message
                 /\ outcome'.line = StageError'.line
                 /\ outcome'.column = StageError'.column
            ELSE /\ outcome'.exc = ""
                 /\ outcome'.value = None]_vars

\* what holds of every such call: nothing is evaluated; a syntax error is
\* reported and returned from or raised again, any other exception of the
\* parser leaves evaluate_env as it is, unreported, in either mode
RefusedCallsEvaluateNothing ==
    [][RefusedCall =>
         /\ NothingEvaluated
         /\ StageError'.exc = "AbrvalgSyntaxError" =>
               /\ outcome'.reported
               /\ outcome'.message = StageError'.message
               /\ outcome'.line = StageError'.line
               /\ outcome'.column = StageError'.column
               /\ outcome'.exc = IF outcome'.verbose THEN "AbrvalgSyntaxError" ELSE ""
               /\ outcome'.value = None
         /\ StageError'.exc # "AbrvalgSyntaxError" =>
               /\ ~outcome'.reported
               /\ outcome'.exc = StageError'.exc]_vars

\* the second call of a session that bound x: in normal mode, on a text
\* whose last line is z ! 1, it raises the KeyError of the parser, with no
\* report; the z = 1 of the line before has not been evaluated
C11_Witness ==
    /\ pc = "evaluated"
    /\ shape = Repl(2, "operator !")
    /\ outcome.call = "evaluate_env"
    /\ ~outcome.verbose
    /\ lexed.ok
    /\ parsed.exc = "KeyError"
    /\ outcome.exc = "KeyError"
    /\ ~outcome.reported
    /\ <<"x">> \in DOMAIN session[GlobalEnv].values
    /\ session[GlobalEnv].values[<<"x">>] = IntVal(1)
    /\ <<"z">> \notin DOMAIN session[GlobalEnv].values

\* the same call on a text whose last line the lexer rejects: reported,
\* nothing returned, nothing bound
RefusedByLexer ==
    /\ pc = "evaluated"
    /\ shape = Repl(2, "lexical error")
    /\ outcome.call = "evaluate_env"
    /\ ~outcome.verbose
    /\ ~lexed.ok
    /\ outcome.exc = ""
    /\ outcome.reported
    /\ outcome.line = 3
    /\ <<"x">> \in DOMAIN session[GlobalEnv].values
    /\ session[GlobalEnv].values[<<"x">>] = IntVal(1)
    /\ <<"z">> \notin DOMAIN session[GlobalEnv].values

\* a step that is a top-level call
TopLevelCall == pc = "source" /\ pc' = "evaluated"

\* the buffers whose first step is the lookup of a name they do not bind
Lookups == {"r=x", "r=f()", "r=j"}

LooksUp == shape.kind = "repl" /\ shape.buffer \in Lookups

\* the first lookup of the call
Looked == outcome.st.log[1]

\* the bindings of the environment the calls of the session share
Shared == session[GlobalEnv].values

BuiltinNames ==
    { <<"p", "r", "i", "n", "t">>, <<"l", "e", "n">>,
      <<"s", "l", "i", "c", "e">>, <<"s", "t", "r">>, <<"i", "n", "t">> }

\* the environment holds exactly the built-ins
Fresh(envs) ==
    /\ Len(envs) = 1
    /\ envs[GlobalEnv].parent = 0
    /\ DOMAIN envs[GlobalEnv].values = BuiltinNames
    /\ \A name \in BuiltinNames :
          /\ envs[GlobalEnv].values[name].k = "builtin"
          /\ envs[GlobalEnv].values[name].name = name

\* C12: a call of evaluate_env loses no binding of the shared environment,
\* and a name an earlier call bound there is found, with its value, by the
\* lookup a later call begins with; a call of evaluate leaves the shared
\* environment alone and begins in an environment that holds exactly the
\* five built-ins, so the lookup of x, f or j it begins with finds nothing.
C12_BindingsAcrossCalls ==
    [][TopLevelCall =>
         IF outcome'.call = "evaluate_env"
         THEN /\ DOMAIN Shared \subseteq DOMAIN Shared'
              /\ (LooksUp /\ Looked'.name \in DOMAIN Shared) =>
                    /\ Looked'.exc = ""
                    /\ Looked'.value = Shared[Looked'.name]
         ELSE /\ session' = session
              /\ LooksUp =>
                    /\ Fresh(Looked'.envs)
                    /\ Looked'.exc = "NameError"]_vars

\* what holds instead of the first half: the lookup finds the binding of an
\* earlier call unless the value bound is None, which it takes for no
\* binding at all
BindingsAcrossCallsButNone ==
    [][TopLevelCall =>
         IF outcome'.call = "evaluate_env"
         THEN /\ DOMAIN Shared \subseteq DOMAIN Shared'
              /\ LooksUp =>
                    /\ Looked'.ev = "get"
                    /\ Looked'.envs = session
                    /\ IF Looked'.name \in DOMAIN Shared
                          /\ Shared[Looked'.name] # None
                       THEN /\ Looked'.exc = ""
                            /\ Looked'.value = Shared[Looked'.name]
                       ELSE Looked'.exc = "NameError"
         ELSE /\ session' = session
              /\ LooksUp =>
                    /\ Looked'.ev = "get"
                    /\ Fresh(Looked'.envs)
                    /\ Looked'.exc = "NameError"]_vars

\* the second call of a session whose first call was x = print(0): x is
\* bound, to None, in the shared environment and r = x raises NameError
C12_Witness ==
    /\ pc = "evaluated"
    /\ shape = Repl(2, "r=x")
    /\ outcome.call = "evaluate_env"
    /\ <<"x">> \in DOMAIN Shared
    /\ Shared[<<"x">>] = None
    /\ Looked.name = <<"x">>
    /\ outcome.exc = "NameError"
    /\ <<"r">> \notin DOMAIN Shared

\* three calls on one environment: a for loop binds j and x, a declaration
\* binds f, and the third call finds f and binds r to what f returns
SessionKeepsBindings ==
    /\ pc = "evaluated"
    /\ shape = Repl(3, "r=f()")
    /\ outcome.call = "evaluate_env"
    /\ outcome.exc = ""
    /\ {<<"j">>, <<"x">>, <<"f">>, <<"r">>} \subseteq DOMAIN Shared
    /\ Shared[<<"j">>] = IntVal(0)
    /\ Shared[<<"f">>].k = "function"
    /\ Shared[<<"r">>] = IntVal(2)

(***************************************************************************)
(* Claims about TokenStream                                                *)
(***************************************************************************)
\* the error of a stream that has no token left
EndOfInput(result) ==
    /\ result.exc = "AbrvalgSyntaxError"
    /\ result.message = <<"Unexpected end of input">>

\* what a call made with the cursor at p on n tokens is claimed to do
CursorRule(p, n, tokens) ==
    /\ stream'._tokens = tokens
    /\ 0 <= stream'._pos /\ stream'._pos <= n
    /\ (outcome'.call = "consume" /\ p < n) =>
          /\ outcome'.exc = ""
          /\ outcome'.node = tokens[p + 1]
          /\ stream'._pos = p + 1
    /\ (outcome'.call = "current" /\ p < n) =>
          /\ outcome'.exc = ""
          /\ outcome'.node = tokens[p + 1]
          /\ stream'._pos = p
    /\ outcome'.call = "is_end" =>
          /\ outcome'.value = (p = n)
          /\ stream'._pos = p

\* C13: the cursor of a stream over n tokens stays within 0..n; consume
\* with the cursor p below n returns token p and moves the cursor to p + 1;
\* current and consume with p = n fail with the end-of-input syntax error
\* and leave the cursor where it is; is_end returns true exactly when
\* p = n; all this for n = 0 too.
C13_CursorWithinStream ==
    [][pc = "stream" =>
         /\ CursorRule(stream._pos, Len(stream._tokens), stream._tokens)
         /\ (outcome'.call \in {"current", "consume"}
               /\ stream._pos = Len(stream._tokens)) =>
               /\ EndOfInput(outcome')
               /\ stream'._pos = stream._pos]_vars

\* what holds instead at the end of a stream: the end-of-input syntax error
\* when the stream has a token, IndexError when it has none
CursorWithinStreamButEmpty ==
    [][pc = "stream" =>
         /\ CursorRule(stream._pos, Len(stream._tokens), stream._tokens)
         /\ (outcome'.call \in {"current", "consume"}
               /\ stream._pos = Len(stream._tokens)) =>
               /\ stream'._pos = stream._pos
               /\ IF stream._tokens = <<>>
                  THEN outcome'.exc = "IndexError"
                  ELSE /\ EndOfInput(outcome')
                       /\ outcome'.line = stream._tokens[Len(stream._tokens)].line
                       /\ outcome'.column = stream._tokens[Len(stream._tokens)].column]_vars

\* consume on the stream over no token: IndexError, the cursor stays at 0
C13_Witness ==
    /\ pc = "stream"
    /\ stream._tokens = <<>>
    /\ stream._pos = 0
    /\ outcome # NotRun
    /\ outcome.call = "consume"
    /\ outcome.exc = "IndexError"

\* consume on a stream whose four tokens have all been consumed
ConsumedToTheEnd ==
    /\ pc = "stream"
    /\ Len(stream._tokens) = 4
    /\ stream._pos = 4
    /\ outcome # NotRun
    /\ outcome.call = "consume"
    /\ EndOfInput(outcome)

(***************************************************************************)
(* Claims about the tokens of a line                                       *)
(***************************************************************************)
KeywordNames ==
    {"FUNCTION", "RETURN", "ELSE", "ELIF", "IF", "WHILE", "BREAK", "CONTINUE",
     "FOR", "IN", "MATCH", "WHEN"}

\* the whole name that begins at column c of line: the letter there and
\* every letter, digit and underscore that follows it
NameAt(line, c) == Slice(line, c, SpanEnd(line, c + 1, WordChars) - 1)

\* the line a token was cut from, as the lexer kept it
LineOf(tk) == lexed.source_lines[tk.line]

\* C14: a name becomes a keyword token, with no value, only when the whole
\* name is a reserved word; any other name, one that begins or ends with a
\* reserved word included, is one NAME token that carries the whole name.
C14_KeywordIsWholeName ==
    Accepted =>
      \A i \in 1..Len(lexed.tokens) :
        With([tk \in {lexed.tokens[i]} |->
           /\ tk.name \in KeywordNames =>
                 /\ tk.value = None
                 /\ NameAt(LineOf(tk), tk.column) \in KeywordTexts
                 /\ keywords(NameAt(LineOf(tk), tk.column)) = tk.name
           /\ tk.name = "NAME" =>
                 /\ LineOf(tk)[tk.column] \in Letters
                 /\ NameAt(LineOf(tk), tk.column) \notin KeywordTexts
                 /\ tk.value = StrVal(NameAt(LineOf(tk), tk.column))
           /\ (tk.name \notin {"STRING", "NUMBER", "NEWLINE", "INDENT", "DEDENT"}
                /\ LineOf(tk)[tk.column] \in Letters) =>
                 tk.name = IF NameAt(LineOf(tk), tk.column) \in KeywordTexts
                           THEN keywords(NameAt(LineOf(tk), tk.column))
                           ELSE "NAME"])

\* inin begins and ends with the reserved word in and is one NAME token
C14_Witness ==
    /\ Accepted
    /\ source = <<"i", "n", "i", "n">>
    /\ Len(lexed.tokens) = 2
    /\ lexed.tokens[1] = Token("NAME", StrVal(<<"i", "n", "i", "n">>), 1, 1)

\* in alone, before a string: the keyword token IN with no value
KeywordAlone ==
    /\ Accepted
    /\ source = <<"i", "n", DQ, "i", DQ>>
    /\ Len(lexed.tokens) = 3
    /\ lexed.tokens[1] = Token("IN", None, 1, 1)
    /\ lexed.tokens[2] = Token("STRING", StrVal(<<"i">>), 1, 3)

(***************************************************************************)
(* Claims about comments and indentation                                   *)
(***************************************************************************)
\* a line that holds a comment and, before it, blanks at most
CommentOnly(line) ==
    /\ SpanEnd(line, 1, Blank) <= Len(line)
    /\ line[SpanEnd(line, 1, Blank)] = "#"

CommentLines == {n \in 1..Len(SourceLines) : CommentOnly(SourceLines[n])}

\* the lines of the source with every comment-only line left empty
Blanked ==
    [n \in 1..Len(SourceLines) |->
        IF n \in CommentLines THEN <<>> ELSE SourceLines[n]]

\* what Lexer.tokenize makes of lines
TokensOfLines(lines) ==
    TokenizeLines(lines, 1,
        [indent_symbol |-> <<>>, last_indent_level |-> 0,
         source_lines |-> <<>>, tokens |-> <<>>])

\* no token stands in a comment: none begins at or after the first # of its
\* line (no line of these sources has a string literal), and a NEWLINE
\* token is the only one of its column
NoTokenInComment ==
    \A i \in 1..Len(lexed.tokens) :
       With([tk \in {lexed.tokens[i]} |->
          tk.name \notin {"NEWLINE", "INDENT", "DEDENT"} =>
             \A c \in 1..tk.column : LineOf(tk)[c] # "#"])

\* the tokens the lines yield: all but the DEDENT tokens of the end of the
\* input, which follow the last NEWLINE and carry the number of the last line
OfLines ==
    IF \E j \in 1..Len(lexed.tokens) : lexed.tokens[j].name = "NEWLINE"
    THEN 1..Max({j \in 1..Len(lexed.tokens) : lexed.tokens[j].name = "NEWLINE"})
    ELSE {}

\* C15: the text from a # to the end of its line yields no token; a line
\* that holds only a comment, indented or not, yields no token at all and
\* changes nothing for the lines after it: the tokens are those of the
\* source with that line left empty.
C15_CommentsElided ==
    Accepted =>
      /\ NoTokenInComment
      /\ \A i \in OfLines : lexed.tokens[i].line \notin CommentLines
      /\ TokensOfLines(Blanked).ok
      /\ TokensOfLines(Blanked).tokens = lexed.tokens

\* the first line the indent unit can be detected on: the first line that
\* is not empty once trimmed and begins with a blank; 0 when there is none
UnitLine ==
    IF \E n \in 1..Len(SourceLines) :
          RStrip(SourceLines[n]) # <<>> /\ SourceLines[n][1] \in Blank
    THEN Min({n \in 1..Len(SourceLines) :
                RStrip(SourceLines[n]) # <<>> /\ SourceLines[n][1] \in Blank})
    ELSE 0

\* what holds instead: a comment-only line changes nothing for the lines
\* after it unless it is the line the indent unit is detected on
CommentsElidedButUnit ==
    Accepted =>
      /\ NoTokenInComment
      /\ \A i \in OfLines : lexed.tokens[i].line \notin CommentLines
      /\ UnitLine \notin CommentLines =>
            /\ TokensOfLines(Blanked).ok
            /\ TokensOfLines(Blanked).tokens = lexed.tokens

\* a comment indented by two blanks, then a by one: the comment fixes the
\* indent unit at two blanks, so a is at level 0 and no INDENT is emitted,
\* where the lines without the comment give INDENT a NEWLINE DEDENT
C15_Witness ==
    /\ Accepted
    /\ source = <<SP, SP, "#", "c", NL, SP, "a">>
    /\ lexed.tokens = << Token("NAME", StrVal(<<"a">>), 2, 2),
                         Token("NEWLINE", None, 2, 3) >>
    /\ TokensOfLines(Blanked).tokens =
          << Token("INDENT", None, 2, 0), Token("NAME", StrVal(<<"a">>), 2, 1),
             Token("NEWLINE", None, 2, 2), Token("DEDENT", None, 2, 0) >>

\* the indent unit: the leading blanks of the line it is detected on
Unit == _detect_indent(RStrip(SourceLines[UnitLine]))

RECURSIVE Leading(_, _)
\* the number of consecutive repetitions of unit at the start of line
Leading(line, unit) ==
    IF StartsWithAt(line, 1, unit)
    THEN 1 + Leading(DropN(line, Len(unit)), unit)
    ELSE 0

\* the lines that come once the unit is fixed and are not empty when trimmed
IndentedLines ==
    {n \in 1..Len(SourceLines) :
        UnitLine # 0 /\ n >= UnitLine /\ RStrip(SourceLines[n]) # <<>>}

\* the level Lexer.tokenize is at after line n, a line that yields tokens:
\* the INDENT tokens less the DEDENT tokens up to the NEWLINE of the line
LevelAfter(n) ==
    Depths(lexed.tokens, 0)[CHOOSE i \in 1..Len(lexed.tokens) :
        lexed.tokens[i].name = "NEWLINE" /\ lexed.tokens[i].line = n]

\* line n is given the level and loses the prefix that level repetitions of
\* the unit make
LevelIs(n, level) ==
    /\ lexed.source_lines[n] = DropN(RStrip(SourceLines[n]), level * Len(Unit))
    /\ NewlinesOfLine(lexed.tokens, n) = 1 => LevelAfter(n) = level

\* C16: once the indent unit is fixed, the level of a line is the number of
\* consecutive repetitions of the unit at its start and only that prefix is
\* stripped; the unit occurring further on in the line changes neither.
C16_LevelIsLeadingUnits ==
    Accepted =>
      \A n \in IndentedLines :
         LevelIs(n, Leading(RStrip(SourceLines[n]), Unit))

\* what holds instead: the level is the number of occurrences of the unit
\* anywhere in the line, which is the claimed one for the lines that hold
\* the unit nowhere but in their leading blanks
LevelIsAllUnits ==
    Accepted =>
      \A n \in IndentedLines :
         /\ LevelIs(n, CountFrom(RStrip(SourceLines[n]), Unit, 1))
         /\ CountFrom(RStrip(SourceLines[n]), Unit, 1)
               = Leading(RStrip(SourceLines[n]), Unit)
            => LevelIs(n, Leading(RStrip(SourceLines[n]), Unit))

\* the unit is two blanks; the second line, a  b with no indentation, holds
\* them between its tokens: it is taken to be at level 1 and loses its
\* first two characters, a among them
C16_Witness ==
    /\ Accepted
    /\ source = <<SP, SP, "a", NL, "a", SP, SP, "b", SP>>
    /\ lexed.source_lines = << <<"a">>, <<SP, "b">> >>
    /\ lexed.tokens =
          << Token("INDENT", None, 1, 0), Token("NAME", StrVal(<<"a">>), 1, 1),
             Token("NEWLINE", None, 1, 2), Token("NAME", StrVal(<<"b">>), 2, 2),
             Token("NEWLINE", None, 2, 3), Token("DEDENT", None, 2, 0) >>

\* the level Lexer.tokenize assigns to line n: the occurrences of the unit
\* in the trimmed line, 0 as long as no unit is fixed
AssignedLevel(n) ==
    With([line \in {RStrip(SourceLines[n])} |->
       With([first \in {UnitLine} |->
          IF first # 0 /\ n >= first /\ line # <<>>
          THEN CountFrom(line, Unit, 1)
          ELSE 0])])

RECURSIVE LevelsFrom(_, _, _, _)
\* the levels of the first n of the lines, the unit fixed on line first
LevelsFrom(lines, first, unit, n) ==
    IF n = 0 THEN <<>>
    ELSE Append(LevelsFrom(lines, first, unit, n - 1),
                IF n >= first /\ RStrip(lines[n]) # <<>>
                THEN CountFrom(RStrip(lines[n]), unit, 1)
                ELSE 0)

\* the levels of all lines: AssignedLevel(n) at n
AssignedLevels ==
    With([lines \in {SourceLines} |->
       With([first \in {UnitLine} |->
          IF first = 0
          THEN [n \in 1..Len(lines) |-> 0]
          ELSE LevelsFrom(lines, first, _detect_indent(RStrip(lines[first])),
                          Len(lines))])])

\* the lines that yield tokens
TokenLines == {lexed.tokens[i].line : i \in OfLines}

\* the tokens of line n: those up to its NEWLINE that carry its number
TokensOfLine(of, n) ==
    {i \in of : lexed.tokens[i].line = n}

\* the level of the last line of S before line n, 0 when there is none
LevelBefore(levels, n, S) ==
    IF \E m \in S : m < n
    THEN levels[Max({m \in S : m < n})]
    ELSE 0

\* the tokens of a line, of which the first is token number first, begin
\* with exactly the INDENT or DEDENT tokens that lead from the level before
\* to the level of the line, and have no other
Dents(tokens, first, before, level) ==
    \A i \in tokens :
       /\ lexed.tokens[i].name = "INDENT" <=> i - first < level - before
       /\ lexed.tokens[i].name = "DEDENT" <=> i - first < before - level

DentsLeadFrom(of, before, level, n) ==
    With([tokens \in {TokensOfLine(of, n)} |->
       Dents(tokens, Min(tokens), before, level)])

\* every line that yields tokens begins with the INDENT or DEDENT tokens
\* that lead to its level from the level of the last line of S before it
DentsFromPrevious(S) ==
    With([levels \in {AssignedLevels} |->
       With([of \in {OfLines} |->
          \A n \in {lexed.tokens[i].line : i \in of} :
             DentsLeadFrom(of, LevelBefore(levels, n, S), levels[n], n)])])

\* C17 as stated: a line whose level differs by k from the level of the
\* previous non-empty line begins with exactly k INDENT tokens (level
\* higher) or k DEDENT tokens (level lower), and a line whose level is the
\* same has none.
C17_DentsFromPreviousNonEmptyLine ==
    Accepted => DentsFromPrevious(NonEmptyLines)

\* C17 amended: the same with the level compared to that of the previous
\* line that yielded tokens (0 for the first such line); lines that hold
\* only a comment are passed over.
C17_DentsFromPreviousTokenLine ==
    Accepted => DentsFromPrevious(TokenLines)

\* a at level 0, a comment at level 1, a at level 2: two INDENT tokens
\* before the second a, where the level of the comment line is one below
C17_Witness ==
    /\ Accepted
    /\ source = <<"a", NL, SP, "#", "c", NL, SP, SP, "a">>
    /\ AssignedLevel(2) = 1
    /\ AssignedLevel(3) = 2
    /\ AssignedLevels = <<0, 1, 2>>
    /\ lexed.tokens =
          << Token("NAME", StrVal(<<"a">>), 1, 1), Token("NEWLINE", None, 1, 2),
             Token("INDENT", None, 3, 0), Token("INDENT", None, 3, 0),
             Token("NAME", StrVal(<<"a">>), 3, 1), Token("NEWLINE", None, 3, 2),
             Token("DEDENT", None, 3, 0), Token("DEDENT", None, 3, 0) >>

(***************************************************************************)
(* Claims about assignment targets                                         *)
(***************************************************************************)
\* the parser has run on the tokens of target = 2
ParsedAssign == pc = "parsed" /\ shape.kind = "assign"

\* the targets that are an identifier or a subscript expression
Assignable == {"a", "a[b]", "(a)"}

\* the type of the node each assignable target is parsed to
TargetType(target) ==
    IF target = "a[b]" THEN "SubscriptOperator" ELSE "Identifier"

\* the program is the one Assignment statement, with 2 on its right
OneAssignment ==
    /\ parsed.exc = ""
    /\ Len(parsed.node.body) = 1
    /\ parsed.node.body[1].type = "Assignment"
    /\ parsed.node.body[1].right = [type |-> "Number", value |-> IntVal(2)]

\* C18: target = 2 is parsed to an Assignment node only when the target is
\* an identifier or a subscript expression; with any other target (a
\* literal, a call, a binary or unary expression, an array or dictionary
\* literal) Parser.parse fails with a syntax error.
C18_AssignmentTargets ==
    ParsedAssign =>
      IF shape.target \in Assignable
      THEN /\ OneAssignment
           /\ parsed.node.body[1].left.type = TargetType(shape.target)
      ELSE parsed.exc = "AbrvalgSyntaxError"

\* what holds instead: every target is accepted
EveryTargetAccepted ==
    ParsedAssign =>
      /\ OneAssignment
      /\ shape.target \in Assignable =>
            parsed.node.body[1].left.type = TargetType(shape.target)
      /\ shape.target \notin Assignable =>
            parsed.node.body[1].left.type \in
               {"Number", "String", "Call", "BinaryOperator", "UnaryOperator",
                "Array", "Dictionary"}

\* 1 = 2 is parsed to an Assignment whose left side is the Number 1
C18_Witness ==
    /\ ParsedAssign
    /\ shape = Assign("1")
    /\ OneAssignment
    /\ parsed.node.body[1].left = [type |-> "Number", value |-> IntVal(1)]

(***************************************************************************)
(* Claims about string literals                                            *)
(***************************************************************************)
RECURSIVE Quoted(_, _, _)
\* body[i ..] is the inside of a literal in quotes q: characters other than
\* q and the backslash, and backslashes each followed by one character
Quoted(body, i, q) ==
    IF i > Len(body) THEN TRUE
    ELSE IF body[i] = BSL
         THEN i + 1 <= Len(body) /\ Quoted(body, i + 2, q)
         ELSE body[i] # q /\ Quoted(body, i + 1, q)

\* the source is one string literal
IsLiteral ==
    /\ Len(source) >= 2
    /\ source[1] \in {DQ, SQ}
    /\ source[Len(source)] = source[1]
    /\ Quoted(Slice(source, 2, Len(source) - 1), 1, source[1])

Inside == Slice(source, 2, Len(source) - 1)

RECURSIVE EscapesKnown(_, _)
\* every backslash of the inside is followed by one of r n t \ " '
EscapesKnown(body, i) ==
    IF i > Len(body) THEN TRUE
    ELSE IF body[i] = BSL
         THEN body[i + 1] \in {"r", "n", "t", BSL, DQ, SQ} /\ EscapesKnown(body, i + 2)
         ELSE EscapesKnown(body, i + 1)

RECURSIVE Resolved(_, _)
\* the inside with each escape replaced by its character, and a backslash
\* before any other character left in place with that character
Resolved(body, i) ==
    IF i > Len(body) THEN <<>>
    ELSE IF body[i] # BSL THEN <<body[i]>> \o Resolved(body, i + 1)
    ELSE IF body[i + 1] \in {"r", "n", "t", BSL, DQ, SQ}
    THEN <<EscapeOf(body[i + 1])>> \o Resolved(body, i + 2)
    ELSE <<BSL, body[i + 1]>> \o Resolved(body, i + 2)

\* the tokens of a source that is one string literal of the value text
OneString(text) ==
    /\ lexed.ok
    /\ lexed.tokens = << Token("STRING", StrVal(text), 1, 1),
                         Token("NEWLINE", None, 1, Len(source) + 1) >>

\* C19: a string literal is decoded to its inside with each escape \r \n
\* \t \\ \" \' replaced by its character; a literal with a backslash
\* before any other character makes tokenization fail.
C19_EscapesDecodedOrRejected ==
    (pc = "lexed" /\ IsLiteral) =>
       IF EscapesKnown(Inside, 1)
       THEN OneString(Resolved(Inside, 1))
       ELSE ~lexed.ok

\* what holds instead: no literal is rejected for its escapes; a backslash
\* before any other character stays in the value, with that character
UnknownEscapesKept ==
    (pc = "lexed" /\ IsLiteral) => OneString(Resolved(Inside, 1))

\* "\i" is the STRING token of the two characters \ and i
C19_Witness ==
    /\ pc = "lexed"
    /\ source = <<DQ, BSL, "i", DQ>>
    /\ IsLiteral
    /\ ~EscapesKnown(Inside, 1)
    /\ OneString(<<BSL, "i">>)

\* "\n'" is the STRING token of a line break and a single quote
EscapeResolved ==
    /\ pc = "lexed"
    /\ source = <<DQ, BSL, "n", SQ, DQ>>
    /\ OneString(<<NL, SQ>>)

\* a # inside a string literal is part of the STRING token
HashInsideString ==
    (pc = "lexed" /\ IsLiteral /\ \E i \in 1..Len(Inside) : Inside[i] = "#") =>
       /\ lexed.ok
       /\ Len(lexed.tokens) = 2
       /\ lexed.tokens[1].name = "STRING"
       /\ \E i \in 1..Len(lexed.tokens[1].value.s) :
             lexed.tokens[1].value.s[i] = "#"

\* "#" #: the first # belongs to the string, the second begins a comment
HashInAndOut ==
    /\ pc = "lexed"
    /\ source = <<DQ, "#", DQ, "#", "i">>
    /\ lexed.ok
    /\ lexed.tokens = << Token("STRING", StrVal(<<"#">>), 1, 1),
                         Token("NEWLINE", None, 1, 6) >>

(***************************************************************************)
(* Claims about the writes of a call                                       *)
(***************************************************************************)
RECURSIVE Ancestors(_, _)
\* env and every environment above it
Ancestors(envs, env) ==
    IF envs[env].parent = 0 THEN {env}
    ELSE {env} \cup Ancestors(envs, envs[env].parent)

\* the calls of user-defined functions that have returned, each as the
\* places in the log of its beginning and of its return
Returned ==
    {c \in (1..Len(Log)) \X (1..Len(Log)) :
        /\ Log[c[1]].ev = "invoke"
        /\ Log[c[2]].ev = "call_exit"
        /\ Log[c[2]].frame = Log[c[1]].frame}

\* C20: when a call of a user-defined function returns, normally or through
\* Return, the environment of the caller and every environment above it
\* bind the names they bound when the call began, each to the same value:
\* the assignments, for-loop variables and function declarations of the
\* body have written to the environment of the call only.
C20_CallWritesOwnEnvironment ==
    Ran =>
      \A c \in Returned :
         \A env \in Ancestors(Log[c[1]].envs, Log[c[1]].env) :
            Log[c[2]].envs[env] = Log[c[1]].envs[env]

\* x = 0 at the top level and x = 1 in f1, which returns its x: r is 1 and
\* the x of the top level is still 0
C20_Witness ==
    /\ Ran
    /\ shape = Scope("1", <<CallFrame(<<>>, <<>>, "1")>>, "x")
    /\ outcome.exc = ""
    /\ Returned # {}
    /\ Len(outcome.st.envs) = 2
    /\ outcome.st.envs[2].values = (<<"x">> :> IntVal(1))
    /\ Globals[<<"x">>] = IntVal(0)
    /\ Globals[<<"r">>] = IntVal(1)

\* a for loop and a declaration in the body of f0: j1, n1 and f2 are bound
\* in the environment of the call, none of them at the top level
LoopAndDeclarationInCall ==
    /\ Ran
    /\ shape = Flow(<<"func", "for", "func">>, "return 7")
    /\ outcome.exc = ""
    /\ Returned # {}
    /\ {<<"j", "1">>, <<"f", "2">>, <<"r", "2">>, <<"n", "1">>}
          \subseteq DOMAIN outcome.st.envs[2].values
    /\ DOMAIN Globals = BuiltinNames \cup {<<"f", "0">>, <<"r", "0">>}
====
